---- MODULE Spec2Model ----
(***************************************************************************)
(* The economy engine of "Garage 2007" (the zustand store of gameStore.ts) *)
(* and its persistence adapter (storageService), as a state machine.       *)
(*                                                                         *)
(* Money.  The store keeps money in JavaScript numbers.  Every amount the  *)
(* engine produces is a multiple of 0.1 rouble (worker income times the    *)
(* work-speed multiplier 1 + 0.1*level, normalised by toFixed(2)), so an   *)
(* amount is modelled exactly, as a count of tenths of a rouble.  (The     *)
(* binary64 sums of the code are within the 0.005 that toFixed(2) removes  *)
(* while the amount is below about 4*10^13 roubles, and sums of whole      *)
(* roubles are exact below 2^53; the model keeps exact sums above that     *)
(* too and does not follow the binary64 grid there.)  The                  *)
(* thresholds reach 10^15 roubles, beyond the integers of the model        *)
(* checker, so an amount is a pair <<hi, lo>> standing for                 *)
(* hi * 10^9 + lo tenths, with 0 <= lo < 10^9 and hi of either sign.       *)
(* Binary64 rounding is modelled where the code makes it observable: in    *)
(* Math.floor(baseCost * Math.pow(1.15, n)).                               *)
(***************************************************************************)
EXTENDS Integers, Sequences, FiniteSets, TLC

\* ------------------------------------------------------------------------
\* Amounts: <<hi, lo>> = hi * NumBase + lo
\* ------------------------------------------------------------------------

NumBase == 10^9

NumZero == <<0, 0>>

\* the number NaN (no amount has lo < 0): arithmetic on it gives NaN, every
\* comparison with it is false
NaN == <<0, -1>>

IsNaN(a) == a[2] < 0

\* a + b
NumAdd(a, b) ==
  IF IsNaN(a) \/ IsNaN(b) THEN NaN
  ELSE LET s == a[2] + b[2]
       IN  <<a[1] + b[1] + (s \div NumBase), s % NumBase>>

\* a - b (the result may be negative: hi < 0)
NumSub(a, b) ==
  IF IsNaN(a) \/ IsNaN(b) THEN NaN
  ELSE LET d == a[2] - b[2]
       IN  IF d >= 0 THEN <<a[1] - b[1], d>> ELSE <<a[1] - b[1] - 1, d + NumBase>>

\* a >= b
NumGe(a, b) ==
  /\ ~IsNaN(a)
  /\ ~IsNaN(b)
  /\ a[1] > b[1] \/ (a[1] = b[1] /\ a[2] >= b[2])

\* a < b
NumLt(a, b) ==
  /\ ~IsNaN(a)
  /\ ~IsNaN(b)
  /\ ~(a[1] > b[1] \/ (a[1] = b[1] /\ a[2] >= b[2]))

\* a >= 0
NumNonNeg(a) == ~IsNaN(a) /\ a[1] >= 0

\* the product of two small naturals x * y as an amount (x <= 10^6, y <= 2*10^6)
NumMul(x, y) ==
  LET xh == x \div 1000
      xl == x % 1000
      t  == xh * y
  IN  NumAdd(<<t \div 10^6, (t % 10^6) * 1000>>, <<0, xl * y>>)

\* a whole number of roubles n (n < 10^8), in tenths
Rub(n) == <<0, 10 * n>>

\* m * 10^e roubles, in tenths
RubE(m, e) ==
  IF e + 1 >= 9
    THEN <<m * 10^(e - 8), 0>>
    ELSE LET v == m * 10^(e + 1) IN <<v \div NumBase, v % NumBase>>

\* a count n (of clicks) as a number <<hi, lo>>
Cnt(n) == <<0, n>>

\* ------------------------------------------------------------------------
\* Constants of the economy
\* ------------------------------------------------------------------------

WorkerTypes == {"apprentice", "mechanic", "master", "brigadier", "director"}

BASE_COSTS ==
  [clickUpgrade |-> 100, apprentice |-> 500, mechanic |-> 5000,
   master |-> 50000, brigadier |-> 500000, director |-> 5000000,
   workSpeed |-> 500]

WORKER_INCOME ==
  [apprentice |-> 2, mechanic |-> 20, master |-> 200,
   brigadier |-> 2000, director |-> 20000]

WORKER_LIMITS ==
  [apprentice |-> 3, mechanic |-> 5, master |-> 3, brigadier |-> 2, director |-> 1]

\* COST_MULTIPLIER = 1.15 = 23/20
COST_MULTIPLIER_NUM == 23
COST_MULTIPLIER_DEN == 20

\* WORK_SPEED_BONUS_PER_LEVEL = 0.1, in tenths
WORK_SPEED_BONUS_PER_LEVEL == 1

CRITICAL_CLICK_MULTIPLIER == 2

GARAGE_LEVEL_THRESHOLDS ==
  << RubE(0, 0),  RubE(1, 4),  RubE(5, 4),  RubE(2, 5),  RubE(1, 6),
     RubE(5, 6),  RubE(25, 6), RubE(1, 8),  RubE(3, 8),  RubE(1, 9),
     RubE(5, 9),  RubE(25, 9), RubE(1, 11), RubE(3, 11), RubE(1, 12),
     RubE(5, 12), RubE(25, 12), RubE(1, 14), RubE(3, 14), RubE(1, 15) >>

MILESTONE_LEVELS == <<5, 10, 15, 20>>

MilestoneSet == {MILESTONE_LEVELS[i] : i \in 1..Len(MILESTONE_LEVELS)}

\* MILESTONE_UPGRADES[level].cost
MILESTONE_UPGRADES ==
  [level \in MilestoneSet |->
     [cost |-> CASE level = 5  -> RubE(1, 6)
                 [] level = 10 -> RubE(1, 9)
                 [] level = 15 -> RubE(1, 12)
                 [] level = 20 -> RubE(1, 15)]]

\* requiredMilestone of hireWorker (0 = no gate)
\* Names that every object inherits from Object.prototype: workers[name],
\* WORKER_LIMITS[name], WORKER_INCOME[name], BASE_COSTS[name] and
\* requiredMilestone[name] are then functions, and name.count and name.cost
\* are undefined.
ObjectPrototypeKeys == {"toString", "constructor"}

\* NaN as a count or a cost (no count or cost is negative), and as a rate
NaNCount == -1

NaNRate == -1

requiredMilestone ==
  [apprentice |-> 0, mechanic |-> 5, master |-> 10, brigadier |-> 15, director |-> 20]

\* array.includes(x)
Includes(arr, x) == \E i \in 1..Len(arr) : arr[i] = x

\* ------------------------------------------------------------------------
\* Formulas (pure functions of the store)
\* ------------------------------------------------------------------------

RECURSIVE GCD(_, _)
GCD(a, b) == IF b = 0 THEN a ELSE GCD(b, a % b)

\* baseCost * 1.15^n as a reduced fraction <<numerator, denominator>>
RECURSIVE CostFraction(_, _)
CostFraction(baseCost, n) ==
  IF n = 0 THEN <<baseCost, 1>>
  ELSE LET p   == CostFraction(baseCost, n - 1)
           num == p[1] * COST_MULTIPLIER_NUM
           den == p[2] * COST_MULTIPLIER_DEN
           g   == GCD(num, den)
       IN  <<num \div g, den \div g>>

\* the largest k with 2^k <= v (v >= 1)
RECURSIVE Log2Floor(_)
Log2Floor(v) == IF v < 2 THEN 0 ELSE 1 + Log2Floor(v \div 2)

\* Math.pow(1.15, n) is a binary64 number below the real 1.15^n by
\* PowDeficit(n) / 100 units of 2^-52:
\*   Math.pow(1.15, 0) = 1 exactly;
\*   Math.pow(1.15, 1) = the binary64 nearest 1.15 = 1.15 - 0.40 * 2^-52
\*                       (1.15 * 2^52 = 5179139571476070.4);
\*   Math.pow(1.15, 2) = 1.3224999999999998 = 1.3225 - 0.96 * 2^-52.
\* For n >= 3 no product baseCost * 1.15^n of the game (counts within the
\* worker limits) is a whole number, and the deficit, below 10^-9 of the
\* product, cannot move its floor.
PowDeficit(n) == CASE n = 1 -> 40 [] n = 2 -> 96 [] OTHER -> 0

\* Math.floor(baseCost * Math.pow(COST_MULTIPLIER, n)) in binary64.
\* The real product is q + r/den.  With r > 0 the fraction r/den >= 20^-n
\* dwarfs the rounding error and the floor is q.  With r = 0 the real product
\* is the whole number q, the binary64 factor Math.pow(1.15, n) is short of
\* 1.15^n by PowDeficit(n)/100 * 2^-52, so the product is short of q by
\* baseCost * PowDeficit(n)/100 * 2^-52; it rounds (to nearest) back to q when
\* that is less than half a unit in the last place of q, 2^(k-53) with
\* 2^k <= q < 2^(k+1), and otherwise to the binary64 just below q, whose
\* floor is q - 1.
FloorCostProduct(baseCost, n) ==
  LET f   == CostFraction(baseCost, n)
      q   == f[1] \div f[2]
      r   == f[1] % f[2]
      k   == Log2Floor(q)
  IN  IF r = 0 /\ baseCost * PowDeficit(n) > 50 * 2^k THEN q - 1 ELSE q

\* calculateUpgradeCost(baseCost, level)
calculateUpgradeCost(baseCost, level) == FloorCostProduct(baseCost, level)

\* calculateWorkerCost(baseCost, count)
calculateWorkerCost(baseCost, count) == FloorCostProduct(baseCost, count)

\* calculateClickIncome(level)
calculateClickIncome(level) == level + 1

\* mutant: a multiplier that ignores the work-speed level
calculateWorkSpeedMultiplierFlat(level) == 10

\* calculateWorkSpeedMultiplier(level), in tenths: 1.0 + level * 0.1
calculateWorkSpeedMultiplier(level) == 10 + level * WORK_SPEED_BONUS_PER_LEVEL

\* calculateTotalPassiveIncome(workers, workSpeedLevel), in tenths of a rouble
\* per second: parseFloat((baseIncome * multiplier).toFixed(2))
calculateTotalPassiveIncome(ws, workSpeedLevel) ==
  IF \E type \in DOMAIN ws \cap ObjectPrototypeKeys : ws[type].count = NaNCount
    THEN NaNRate
  ELSE
  LET baseIncome ==
          ws["apprentice"].count * WORKER_INCOME["apprentice"]
        + ws["mechanic"].count   * WORKER_INCOME["mechanic"]
        + ws["master"].count     * WORKER_INCOME["master"]
        + ws["brigadier"].count  * WORKER_INCOME["brigadier"]
        + ws["director"].count   * WORKER_INCOME["director"]
  IN  baseIncome * calculateWorkSpeedMultiplier(workSpeedLevel)

\* mutant: the walk without the milestone gate
RECURSIVE checkAutoLevelUngated(_, _, _)
checkAutoLevelUngated(bal, currentLevel, purchased) ==
  IF ~(currentLevel < 20) THEN currentLevel
  ELSE IF NumLt(bal, GARAGE_LEVEL_THRESHOLDS[currentLevel + 1]) THEN currentLevel
  ELSE checkAutoLevelUngated(bal, currentLevel + 1, purchased)

\* mutant: no walk at all
checkAutoLevelStay(bal, currentLevel, purchased) == currentLevel

\* checkAutoLevel(balance, currentLevel, milestonesPurchased): the while loop,
\* one level per call
RECURSIVE checkAutoLevel(_, _, _)
checkAutoLevel(bal, currentLevel, purchased) ==
  IF ~(currentLevel < 20) THEN currentLevel
  ELSE LET nextLevel     == currentLevel + 1
           nextThreshold == GARAGE_LEVEL_THRESHOLDS[nextLevel]
       IN  IF NumLt(bal, nextThreshold) THEN currentLevel
           ELSE IF nextLevel \in MilestoneSet /\ ~Includes(purchased, nextLevel)
                  THEN currentLevel
                  ELSE checkAutoLevel(bal, nextLevel, purchased)

\* the first milestone level (in the order of MILESTONE_LEVELS) that is not
\* purchased, 0 when all are
RECURSIVE FirstUnpurchasedFrom(_, _)
FirstUnpurchasedFrom(i, purchased) ==
  IF i > Len(MILESTONE_LEVELS) THEN 0
  ELSE IF ~Includes(purchased, MILESTONE_LEVELS[i]) THEN MILESTONE_LEVELS[i]
  ELSE FirstUnpurchasedFrom(i + 1, purchased)

\* mutant: a milestone check that offers the first tier whose threshold is
\* reached, purchased or not
checkForMilestoneAnyTier(bal, purchased, show, pending, dismissed) ==
  IF show \/ dismissed THEN <<show, pending>>
  ELSE IF NumGe(bal, GARAGE_LEVEL_THRESHOLDS[MILESTONE_LEVELS[1]])
         THEN <<TRUE, MILESTONE_LEVELS[1]>>
         ELSE <<show, pending>>

\* mutant: a milestone check that does not look at the dismissal
checkForMilestoneIgnoringDismissal(bal, purchased, show, pending, dismissed) ==
  IF show THEN <<show, pending>>
  ELSE LET level == FirstUnpurchasedFrom(1, purchased)
       IN  IF level # 0 /\ NumGe(bal, GARAGE_LEVEL_THRESHOLDS[level])
             THEN <<TRUE, level>>
             ELSE <<show, pending>>

\* checkForMilestone(): the modal state <<showMilestoneModal,
\* pendingMilestoneLevel>> it leaves (pendingMilestoneLevel 0 stands for null)
checkForMilestone(bal, purchased, show, pending, dismissed) ==
  IF show \/ dismissed THEN <<show, pending>>
  ELSE LET level == FirstUnpurchasedFrom(1, purchased)
       IN  IF level # 0 /\ NumGe(bal, GARAGE_LEVEL_THRESHOLDS[level])
             THEN <<TRUE, level>>
             ELSE <<show, pending>>

\* minimum offline interval that earns, in seconds
MIN_OFFLINE_SECONDS == 60

SECONDS_PER_HOUR == 3600

\* mutant: offline earnings without the cap of maxOfflineHours
calculateOfflineEarningsNoCap(passiveIncomePerSec, lastTimestamp, maxOfflineHours, nowSec) ==
  IF passiveIncomePerSec <= 0 THEN NumZero
  ELSE IF lastTimestamp = 0 THEN NumZero
  ELSE IF nowSec - lastTimestamp < MIN_OFFLINE_SECONDS THEN NumZero
  ELSE NumMul(nowSec - lastTimestamp, passiveIncomePerSec)

\* calculateOfflineEarnings(passiveIncomePerSec, lastTimestamp, maxOfflineHours)
\* at clock reading nowSec; the rate in tenths of a rouble per second, the
\* result an amount
calculateOfflineEarnings(passiveIncomePerSec, lastTimestamp, maxOfflineHours, nowSec) ==
  IF passiveIncomePerSec <= 0 THEN NumZero
  ELSE IF lastTimestamp = 0 THEN NumZero
  ELSE LET elapsedSeconds == nowSec - lastTimestamp
           maxSeconds     == maxOfflineHours * SECONDS_PER_HOUR
           clampedSeconds == IF elapsedSeconds < maxSeconds THEN elapsedSeconds
                             ELSE maxSeconds
       IN  IF elapsedSeconds < MIN_OFFLINE_SECONDS THEN NumZero
           ELSE NumMul(clampedSeconds, passiveIncomePerSec)

\* ------------------------------------------------------------------------
\* State
\* ------------------------------------------------------------------------

VARIABLES
  balance,                 \* amount
  clickValue,
  totalClicks,             \* number <<hi, lo>>
  garageLevel,
  milestonesPurchased,     \* the array, in order of purchase
  showMilestoneModal,
  pendingMilestoneLevel,   \* 0 = null
  milestoneModalDismissed,
  passiveIncomePerSecond,  \* tenths of a rouble per second
  upgrades,                \* [clickPower, workSpeed |-> [level, cost]]
  workers,                 \* [type |-> [count, cost]]
  totalEarned,             \* amount
  sessionCount,
  isLoaded,
  lastOfflineEarnings,     \* amount
  lastOfflineTimeAway,     \* seconds
  storage,                 \* localStorage[STORAGE_KEY]: <<>> or <<document>>
  now,                     \* Date.now(), in seconds
  ret,                     \* the last call and what it reported
  steps,                   \* calls so far (bounded by MaxSteps)
  calArgs,                 \* arguments of a call of a pure function
  calResult                \* and its result (0 = not called)

\* the store (GameState)
storeVars ==
  <<balance, clickValue, totalClicks, garageLevel, milestonesPurchased,
    showMilestoneModal, pendingMilestoneLevel, milestoneModalDismissed,
    passiveIncomePerSecond, upgrades, workers, totalEarned, sessionCount,
    isLoaded, lastOfflineEarnings, lastOfflineTimeAway>>

calVars == <<calArgs, calResult>>

vars == <<storeVars, storage, now, ret, steps, calVars>>

\* ------------------------------------------------------------------------
\* Bounds of the model
\* ------------------------------------------------------------------------

\* state-changing calls explored after the initial run of clicks
MaxSteps == 3

\* seconds that pass between two calls while no timer fires
ElapseSeconds == {30, 90, 90000}

\* worker types passed to hireWorker ("manager" is not a type of the store)
HireInputs == WorkerTypes \cup {"manager"}

\* levels passed to purchaseMilestone (7 is no milestone level)
MilestoneInputs == MilestoneSet \cup {7}

\* ------------------------------------------------------------------------
\* Initial states
\* ------------------------------------------------------------------------

\* initialState.upgrades
initialUpgrades ==
  [clickPower |-> [level |-> 0, cost |-> BASE_COSTS.clickUpgrade],
   workSpeed  |-> [level |-> 0, cost |-> BASE_COSTS.workSpeed]]

\* initialState.workers
initialWorkers == [w \in WorkerTypes |-> [count |-> 0, cost |-> BASE_COSTS[w]]]

\* the number m * 10^e as <<hi, lo>>
CntE(m, e) ==
  IF e >= 9 THEN <<m * 10^(e - 9), 0>>
  ELSE LET v == m * 10^e IN <<v \div NumBase, v % NumBase>>

\* A run of m * 10^e clicks without a critical hit on the fresh store: each
\* click adds clickValue = 1 to balance and totalEarned and 1 to totalClicks.
ClickRuns ==
  { <<0, 0>>, <<1, 2>>, <<6, 2>>, <<1, 4>>, <<1, 6>>, <<1, 9>>, <<2, 15>> }

NoCall == [op |-> "none", status |-> "", value |-> "undefined"]

\* the arguments of checkAutoLevel in the store's initial state
initialCalArgs ==
  [balance |-> NumZero, currentLevel |-> 1, milestonesPurchased |-> <<>>]

\* The store as created (initialState), after a run of clicks: handleClick
\* needs nothing loaded, sets garageLevel by checkAutoLevel and the modal by
\* checkForMilestone.
StoreAfterClicks(run) ==
    LET earned == RubE(run[1], run[2])
        modal  == checkForMilestone(earned, <<>>, FALSE, 0, FALSE)
    IN  /\ balance = earned
        /\ clickValue = 1
        /\ totalClicks = CntE(run[1], run[2])
        /\ garageLevel = checkAutoLevel(earned, 1, <<>>)
        /\ milestonesPurchased = <<>>
        /\ showMilestoneModal = modal[1]
        /\ pendingMilestoneLevel = modal[2]
        /\ milestoneModalDismissed = FALSE
        /\ passiveIncomePerSecond = 0
        /\ upgrades = initialUpgrades
        /\ workers = initialWorkers
        /\ totalEarned = earned
        /\ sessionCount = 0
        /\ isLoaded = FALSE
        /\ lastOfflineEarnings = NumZero
        /\ lastOfflineTimeAway = 0
        /\ storage = <<>>
        /\ now = 1
        /\ ret = NoCall
        /\ steps = 0

Init ==
  /\ \E run \in ClickRuns : StoreAfterClicks(run)
  /\ calArgs = initialCalArgs
  /\ calResult = 0

\* ------------------------------------------------------------------------
\* Persistence adapter
\* ------------------------------------------------------------------------

\* the document saveProgress hands to saveGame, from the given store fields
\* (nuts and lastSessionDate, which no action reads, are left to the
\* document already stored)
SaveDocument(bal, clicks, level, purchased, ups, wks, earned, sessions) ==
  [playerData |-> [balance |-> bal, totalClicks |-> clicks, garageLevel |-> level,
                   milestonesPurchased |-> purchased],
   upgrades   |-> ups,
   workers    |-> [w \in WorkerTypes |-> wks[w]],
   stats      |-> [totalEarned |-> earned, sessionCount |-> sessions]]

\* An object is a function from its keys to its values; a key that is
\* absent (undefined) is not in the DOMAIN.  In a document the values of
\* playerData and stats are numbers, strings and arrays, the values of
\* upgrades and workers are objects of numbers.  The storage key holds the
\* JSON text of a document, kept here as the document it parses to
\* (JSON.stringify and JSON.parse keep finite numbers, strings, arrays and
\* the keys of plain objects).

SAVE_VERSION == 1

DEFAULT_SAVE_DATA ==
  [version    |-> SAVE_VERSION,
   timestamp  |-> 0,
   playerData |-> [balance |-> NumZero, nuts |-> 0, totalClicks |-> Cnt(0),
                   garageLevel |-> 1],
   upgrades   |-> [clickPower |-> [level |-> 0, cost |-> 100],
                   workSpeed  |-> [level |-> 0, cost |-> 500]],
   workers    |-> [apprentice |-> [count |-> 0, cost |-> 500],
                   mechanic   |-> [count |-> 0, cost |-> 5000]],
   stats      |-> [totalEarned |-> NumZero, sessionCount |-> 0,
                   lastSessionDate |-> ""]]

\* Array.isArray(value), for a value in the place of an object: the empty
\* array is the one array put there
IsArray(value) == value = <<>>

\* deepMerge(target, source) on objects whose values are no objects: every
\* key of source overwrites
MergeFields(target, source) ==
  [k \in DOMAIN target \cup DOMAIN source |->
     IF k \in DOMAIN source THEN source[k] ELSE target[k]]

\* deepMerge(target, source) on objects whose values are objects (upgrades,
\* workers): a key of both is merged, a key of source alone is taken over
MergeObjects(target, source) ==
  [k \in DOMAIN target \cup DOMAIN source |->
     IF k \notin DOMAIN source THEN target[k]
     ELSE IF k \notin DOMAIN target THEN source[k]
     ELSE IF IsArray(source[k]) \/ IsArray(target[k]) THEN source[k]
     ELSE MergeFields(target[k], source[k])]

\* mutant: a merge that replaces a whole section by the source's
deepMergeShallow(target, source) ==
  [k \in DOMAIN target \cup DOMAIN source |->
     IF k \in DOMAIN source THEN source[k] ELSE target[k]]

\* deepMerge(target, source) on documents
deepMerge(target, source) ==
  [k \in DOMAIN target \cup DOMAIN source |->
     IF k \notin DOMAIN source THEN target[k]
     ELSE IF k \notin DOMAIN target THEN source[k]
     ELSE IF k \in {"playerData", "upgrades", "workers", "stats"}
               /\ (IsArray(source[k]) \/ IsArray(target[k])) THEN source[k]
     ELSE IF k \in {"playerData", "stats"} THEN MergeFields(target[k], source[k])
     ELSE IF k \in {"upgrades", "workers"} THEN MergeObjects(target[k], source[k])
     ELSE source[k]]

\* isValidSaveData(data): typeof of a key that is absent is 'undefined', and
\* no value other than a number passes the test for 'number'; an object or
\* an array passes the test for 'object'.  A key is in the DOMAIN when its
\* value has the type the test asks for.
isValidSaveData(data) ==
  /\ {"version", "timestamp", "playerData", "upgrades", "workers", "stats"}
        \subseteq DOMAIN data
  /\ {"balance", "totalClicks", "garageLevel"} \subseteq DOMAIN data.playerData
  /\ {"clickPower", "workSpeed"} \subseteq DOMAIN data.upgrades
  /\ {"apprentice", "mechanic"} \subseteq DOMAIN data.workers

\* a text under the storage key on which JSON.parse throws
UnparseableText == [text |-> "{not json"]

\* JSON.parse(raw) returns
Parses(raw) == "text" \notin DOMAIN raw

\* loadGame(): <<>> for null, else <<document>>
loadGame ==
  IF Len(storage) = 0 THEN <<>>
  ELSE IF ~Parses(storage[1]) THEN <<>>
  ELSE IF ~isValidSaveData(storage[1]) THEN <<>>
  ELSE << deepMerge(DEFAULT_SAVE_DATA, storage[1]) >>

\* JSON.stringify(doc) as the document the text parses to: NaN is written
\* as null, which is no number
Stringify(doc) ==
  IF IsNaN(doc.playerData.balance)
    THEN [doc EXCEPT !.playerData =
            [k \in DOMAIN doc.playerData \ {"balance"} |-> doc.playerData[k]]]
    ELSE doc

\* saveGame(data): the new content of the storage key
saveGame(data, nowSec) ==
  LET existing == IF Len(loadGame) = 0 THEN DEFAULT_SAVE_DATA ELSE loadGame[1]
      merged   == deepMerge(existing, data)
  IN  << Stringify([merged EXCEPT !.version = SAVE_VERSION, !.timestamp = nowSec]) >>

\* mutant: a saveGame that reports a failed write as a success
saveGameOutcomeSilent(data, nowSec, writable) ==
  IF writable THEN [success |-> TRUE, storage |-> saveGame(data, nowSec)]
  ELSE [success |-> TRUE, storage |-> storage]

\* saveGame(data) with its try/catch: writable is whether
\* localStorage.setItem accepts the write (it throws when the quota is
\* exceeded); success is the value returned, storage the content of the
\* storage key afterwards
saveGameOutcome(data, nowSec, writable) ==
  IF writable THEN [success |-> TRUE, storage |-> saveGame(data, nowSec)]
  ELSE [success |-> FALSE, storage |-> storage]

\* the value a call returns: purchaseClickUpgrade and purchaseMilestone
\* return true or false, handleClick returns isCritical, the other actions
\* return nothing
ReturnValue(op, status) ==
  IF op \in {"purchaseClickUpgrade", "purchaseMilestone"}
    THEN IF status = "ok" THEN "true" ELSE "false"
  ELSE IF op = "handleClick"
    THEN IF status = "critical" THEN "true" ELSE "false"
  ELSE "undefined"

\* The end of a call: what it reports, status being the branch it took (the
\* console warning of a rejected call names it) and value what it returned.
\* Every call counts as a step of the run (bounded by MaxSteps).
Done(op, status) ==
  /\ ret' = [op |-> op, status |-> status, value |-> ReturnValue(op, status)]
  /\ steps < MaxSteps
  /\ steps' = steps + 1
  /\ UNCHANGED calVars

\* a call that changes nothing but what it reports
Report(op, status) ==
  /\ UNCHANGED <<storeVars, storage, now>>
  /\ Done(op, status)

\* ------------------------------------------------------------------------
\* Engine actions
\* ------------------------------------------------------------------------

\* mutant: handleClick that credits balance but not totalEarned
handleClickNoEarned(isCritical) ==
  LET income     == IF isCritical THEN clickValue * CRITICAL_CLICK_MULTIPLIER
                    ELSE clickValue
      newBalance == NumAdd(balance, Rub(income))
      modal      == checkForMilestone(newBalance, milestonesPurchased,
                      showMilestoneModal, pendingMilestoneLevel,
                      milestoneModalDismissed)
  IN  /\ balance' = newBalance
      /\ totalClicks' = NumAdd(totalClicks, Cnt(1))
      /\ garageLevel' = checkAutoLevel(newBalance, garageLevel, milestonesPurchased)
      /\ showMilestoneModal' = modal[1]
      /\ pendingMilestoneLevel' = modal[2]
      /\ UNCHANGED <<clickValue, milestonesPurchased, milestoneModalDismissed,
                     passiveIncomePerSecond, upgrades, workers, sessionCount,
                     isLoaded, lastOfflineEarnings, lastOfflineTimeAway,
                     storage, now, totalEarned>>
      /\ Done("handleClick", IF isCritical THEN "critical" ELSE "normal")

\* handleClick(), the critical roll Math.random() < 0.05 being isCritical
handleClick(isCritical) ==
  LET income     == IF isCritical THEN clickValue * CRITICAL_CLICK_MULTIPLIER
                    ELSE clickValue
      newBalance == NumAdd(balance, Rub(income))
      newLevel   == checkAutoLevel(newBalance, garageLevel, milestonesPurchased)
      modal      == checkForMilestone(newBalance, milestonesPurchased,
                      showMilestoneModal, pendingMilestoneLevel,
                      milestoneModalDismissed)
  IN  /\ balance' = newBalance
      /\ totalClicks' = NumAdd(totalClicks, Cnt(1))
      /\ totalEarned' = NumAdd(totalEarned, Rub(income))
      /\ garageLevel' = newLevel
      /\ showMilestoneModal' = modal[1]
      /\ pendingMilestoneLevel' = modal[2]
      /\ UNCHANGED <<clickValue, milestonesPurchased, milestoneModalDismissed,
                     passiveIncomePerSecond, upgrades, workers, sessionCount,
                     isLoaded, lastOfflineEarnings, lastOfflineTimeAway,
                     storage, now>>
      /\ Done("handleClick", IF isCritical THEN "critical" ELSE "normal")

\* mutant: purchaseClickUpgrade without the funds check
purchaseClickUpgradeCheckNoFunds == "ok"

\* the check of purchaseClickUpgrade: what the call reports
purchaseClickUpgradeCheck ==
  IF NumLt(balance, Rub(upgrades.clickPower.cost)) THEN "insufficient_funds"
  ELSE "ok"

\* purchaseClickUpgrade()
purchaseClickUpgrade ==
  LET clickPower    == upgrades.clickPower
      status        == purchaseClickUpgradeCheck
      newLevel      == clickPower.level + 1
      newCost       == calculateUpgradeCost(BASE_COSTS.clickUpgrade, newLevel)
      newClickValue == calculateClickIncome(newLevel)
      newBalance    == NumSub(balance, Rub(clickPower.cost))
      newUpgrades   == [upgrades EXCEPT !.clickPower = [level |-> newLevel,
                                                        cost  |-> newCost]]
  IN  IF status # "ok" THEN Report("purchaseClickUpgrade", status)
      ELSE /\ balance' = newBalance
           /\ clickValue' = newClickValue
           /\ upgrades' = newUpgrades
           /\ \E writable \in BOOLEAN :
                storage' = saveGameOutcome(SaveDocument(newBalance, totalClicks,
                             garageLevel, milestonesPurchased, newUpgrades, workers,
                             totalEarned, sessionCount), now, writable).storage
           /\ UNCHANGED <<totalClicks, garageLevel, milestonesPurchased,
                          showMilestoneModal, pendingMilestoneLevel,
                          milestoneModalDismissed, passiveIncomePerSecond, workers,
                          totalEarned, sessionCount, isLoaded, lastOfflineEarnings,
                          lastOfflineTimeAway, now>>
           /\ Done("purchaseClickUpgrade", status)

\* mutant: purchaseWorkSpeedUpgrade without the milestone gate
purchaseWorkSpeedUpgradeCheckNoGate ==
  IF NumLt(balance, Rub(upgrades.workSpeed.cost)) THEN "insufficient_funds"
  ELSE "ok"

\* the checks of purchaseWorkSpeedUpgrade, in order: what the call reports
purchaseWorkSpeedUpgradeCheck ==
  IF ~Includes(milestonesPurchased, 5) THEN "locked"
  ELSE IF NumLt(balance, Rub(upgrades.workSpeed.cost)) THEN "insufficient_funds"
  ELSE "ok"

\* purchaseWorkSpeedUpgrade()
purchaseWorkSpeedUpgrade ==
  LET currentLevel     == upgrades.workSpeed.level
      currentCost      == upgrades.workSpeed.cost
      status           == purchaseWorkSpeedUpgradeCheck
      newLevel         == currentLevel + 1
      newCost          == calculateUpgradeCost(BASE_COSTS.workSpeed, newLevel)
      newPassiveIncome == calculateTotalPassiveIncome(workers, newLevel)
      newBalance       == NumSub(balance, Rub(currentCost))
      newUpgrades      == [upgrades EXCEPT !.workSpeed = [level |-> newLevel,
                                                          cost  |-> newCost]]
  IN  IF status # "ok" THEN Report("purchaseWorkSpeedUpgrade", status)
      ELSE /\ balance' = newBalance
           /\ passiveIncomePerSecond' = newPassiveIncome
           /\ upgrades' = newUpgrades
           /\ \E writable \in BOOLEAN :
                storage' = saveGameOutcome(SaveDocument(newBalance, totalClicks,
                             garageLevel, milestonesPurchased, newUpgrades, workers,
                             totalEarned, sessionCount), now, writable).storage
           /\ UNCHANGED <<clickValue, totalClicks, garageLevel, milestonesPurchased,
                          showMilestoneModal, pendingMilestoneLevel,
                          milestoneModalDismissed, workers, totalEarned,
                          sessionCount, isLoaded, lastOfflineEarnings,
                          lastOfflineTimeAway, now>>
           /\ Done("purchaseWorkSpeedUpgrade", status)

\* mutant: hireWorker without the capacity check
hireWorkerCheckNoCap(workerType) ==
  IF workerType \notin DOMAIN workers THEN "unknown_worker"
  ELSE LET worker    == workers[workerType]
           milestone == requiredMilestone[workerType]
       IN  IF milestone > 0 /\ ~Includes(milestonesPurchased, milestone)
             THEN "locked"
           ELSE IF NumLt(balance, Rub(worker.cost)) THEN "insufficient_funds"
           ELSE "ok"

\* mutant: hireWorker checking the funds before the milestone gate
hireWorkerCheckFundsFirst(workerType) ==
  IF workerType \notin DOMAIN workers THEN "unknown_worker"
  ELSE LET worker    == workers[workerType]
           milestone == requiredMilestone[workerType]
       IN  IF worker.count >= WORKER_LIMITS[workerType] THEN "at_capacity"
           ELSE IF NumLt(balance, Rub(worker.cost)) THEN "insufficient_funds"
           ELSE IF milestone > 0 /\ ~Includes(milestonesPurchased, milestone)
                  THEN "locked"
           ELSE "ok"

\* mutant: hireWorker without the milestone gate
hireWorkerCheckUngated(workerType) ==
  IF workerType \notin DOMAIN workers THEN "unknown_worker"
  ELSE LET worker == workers[workerType]
       IN  IF worker.count >= WORKER_LIMITS[workerType] THEN "at_capacity"
           ELSE IF NumLt(balance, Rub(worker.cost)) THEN "insufficient_funds"
           ELSE "ok"

\* the checks of hireWorker, in order: what the call reports.  For a name
\* of Object.prototype, workers[workerType] is a function (or the entry an
\* earlier such call left, with count and cost NaN): !worker is false, and
\* so is each of worker.count >= workerLimit, milestone > 0 and
\* balance < worker.cost.
hireWorkerCheck(workerType) ==
  IF workerType \in ObjectPrototypeKeys THEN "ok"
  ELSE IF workerType \notin DOMAIN workers THEN "unknown_worker"
  ELSE LET worker    == workers[workerType]
           milestone == requiredMilestone[workerType]
       IN  IF worker.count >= WORKER_LIMITS[workerType] THEN "at_capacity"
           ELSE IF milestone > 0 /\ ~Includes(milestonesPurchased, milestone)
                  THEN "locked"
           ELSE IF NumLt(balance, Rub(worker.cost)) THEN "insufficient_funds"
           ELSE "ok"

\* hireWorker(workerType)
hireWorker(workerType) ==
  LET status == hireWorkerCheck(workerType)
  IN  IF status # "ok" THEN Report("hireWorker", status)
      ELSE LET inherited        == workerType \in ObjectPrototypeKeys
               worker           == IF inherited
                                     THEN [count |-> NaNCount, cost |-> NaNCount]
                                     ELSE workers[workerType]
               newCount         == IF inherited THEN NaNCount ELSE worker.count + 1
               newCost          == IF inherited THEN NaNCount
                                   ELSE calculateWorkerCost(BASE_COSTS[workerType],
                                          newCount)
               workersAfterHire == [k \in DOMAIN workers \cup {workerType} |->
                                      IF k = workerType
                                        THEN [count |-> newCount, cost |-> newCost]
                                        ELSE workers[k]]
               newPassiveIncome == calculateTotalPassiveIncome(workersAfterHire,
                                     upgrades.workSpeed.level)
               newBalance       == NumSub(balance, IF inherited THEN NaN
                                                   ELSE Rub(worker.cost))
           IN  /\ balance' = newBalance
               /\ passiveIncomePerSecond' = newPassiveIncome
               /\ workers' = workersAfterHire
               /\ \E writable \in BOOLEAN :
                    storage' = saveGameOutcome(SaveDocument(newBalance, totalClicks,
                                 garageLevel, milestonesPurchased, upgrades,
                                 workersAfterHire, totalEarned, sessionCount),
                                 now, writable).storage
               /\ UNCHANGED <<clickValue, totalClicks, garageLevel,
                              milestonesPurchased, showMilestoneModal,
                              pendingMilestoneLevel, milestoneModalDismissed,
                              upgrades, totalEarned, sessionCount, isLoaded,
                              lastOfflineEarnings, lastOfflineTimeAway, now>>
               /\ Done("hireWorker", status)

\* mutant: a tick that credits balance but not totalEarned
tickPassiveIncomeNoEarned ==
  IF passiveIncomePerSecond <= 0
    THEN /\ UNCHANGED <<storeVars, storage, now>>
         /\ Done("tick", "idle")
    ELSE LET newBalance == NumAdd(balance, <<0, passiveIncomePerSecond>>)
             modal      == checkForMilestone(newBalance, milestonesPurchased,
                             showMilestoneModal, pendingMilestoneLevel,
                             milestoneModalDismissed)
         IN  /\ balance' = newBalance
             /\ garageLevel' = checkAutoLevel(newBalance, garageLevel, milestonesPurchased)
             /\ showMilestoneModal' = modal[1]
             /\ pendingMilestoneLevel' = modal[2]
             /\ UNCHANGED <<clickValue, totalClicks, milestonesPurchased,
                            milestoneModalDismissed, passiveIncomePerSecond,
                            upgrades, workers, sessionCount, isLoaded, totalEarned,
                            lastOfflineEarnings, lastOfflineTimeAway, storage, now>>
             /\ Done("tick", "paid")

\* the interval callback of startPassiveIncome (the clock is read only by
\* saveGame and loadProgress; Elapse advances it)
tickPassiveIncome ==
  IF passiveIncomePerSecond <= 0 /\ passiveIncomePerSecond # NaNRate
    THEN /\ UNCHANGED <<storeVars, storage, now>>
         /\ Done("tick", "idle")
    ELSE LET rate       == IF passiveIncomePerSecond = NaNRate THEN NaN
                           ELSE <<0, passiveIncomePerSecond>>
             newBalance == NumAdd(balance, rate)
             newLevel   == checkAutoLevel(newBalance, garageLevel, milestonesPurchased)
             modal      == checkForMilestone(newBalance, milestonesPurchased,
                             showMilestoneModal, pendingMilestoneLevel,
                             milestoneModalDismissed)
         IN  /\ balance' = newBalance
             /\ totalEarned' = NumAdd(totalEarned, rate)
             /\ garageLevel' = newLevel
             /\ showMilestoneModal' = modal[1]
             /\ pendingMilestoneLevel' = modal[2]
             /\ UNCHANGED <<clickValue, totalClicks, milestonesPurchased,
                            milestoneModalDismissed, passiveIncomePerSecond,
                            upgrades, workers, sessionCount, isLoaded,
                            lastOfflineEarnings, lastOfflineTimeAway, storage, now>>
             /\ Done("tick", "paid")

\* saveProgress(): the store is only read; the outcome of saveGame goes to
\* the console
saveProgress ==
  \E writable \in BOOLEAN :
    LET outcome == saveGameOutcome(SaveDocument(balance, totalClicks, garageLevel,
                     milestonesPurchased, upgrades, workers, totalEarned,
                     sessionCount), now, writable)
    IN  /\ storage' = outcome.storage
        /\ UNCHANGED <<storeVars, now>>
        /\ Done("saveProgress", IF outcome.success THEN "ok" ELSE "write_failed")

\* mutant: the offline amount added to the balance a second time
creditOfflineEarningsTwice(bal, earned, level, purchased, show, pending, dismissed, amount) ==
  LET newBalance == NumAdd(NumAdd(bal, amount), amount)
      newLevel   == checkAutoLevel(newBalance, level, purchased)
      modal      == checkForMilestone(newBalance, purchased, show, pending, dismissed)
  IN  [balance |-> newBalance, totalEarned |-> NumAdd(earned, amount),
       garageLevel |-> newLevel, show |-> modal[1], pending |-> modal[2]]

\* mutant: the offline amount credited to balance but not to totalEarned
creditOfflineEarningsBalanceOnly(bal, earned, level, purchased, show, pending, dismissed, amount) ==
  LET newBalance == NumAdd(bal, amount)
      newLevel   == checkAutoLevel(newBalance, level, purchased)
      modal      == checkForMilestone(newBalance, purchased, show, pending, dismissed)
  IN  [balance |-> newBalance, totalEarned |-> earned,
       garageLevel |-> newLevel, show |-> modal[1], pending |-> modal[2]]

\* mutant: the offline amount added to the balance the store held before
\* the load
creditOfflineEarningsOnCurrent(bal, earned, level, purchased, show, pending, dismissed, amount) ==
  LET newBalance == NumAdd(balance, amount)
      newLevel   == checkAutoLevel(newBalance, level, purchased)
      modal      == checkForMilestone(newBalance, purchased, show, pending, dismissed)
  IN  [balance |-> newBalance, totalEarned |-> NumAdd(earned, amount),
       garageLevel |-> newLevel, show |-> modal[1], pending |-> modal[2]]

\* the set(...) of addOfflineEarnings(amount) followed by its
\* checkForMilestone(), on the given store fields
creditOfflineEarnings(bal, earned, level, purchased, show, pending, dismissed, amount) ==
  LET newBalance == NumAdd(bal, amount)
      newLevel   == checkAutoLevel(newBalance, level, purchased)
      modal      == checkForMilestone(newBalance, purchased, show, pending, dismissed)
  IN  [balance |-> newBalance, totalEarned |-> NumAdd(earned, amount),
       garageLevel |-> newLevel, show |-> modal[1], pending |-> modal[2]]

\* addOfflineEarnings(amount)
addOfflineEarnings(amount) ==
  LET r == creditOfflineEarnings(balance, totalEarned, garageLevel,
             milestonesPurchased, showMilestoneModal, pendingMilestoneLevel,
             milestoneModalDismissed, amount)
  IN  /\ balance' = r.balance
      /\ totalEarned' = r.totalEarned
      /\ garageLevel' = r.garageLevel
      /\ showMilestoneModal' = r.show
      /\ pendingMilestoneLevel' = r.pending
      /\ UNCHANGED <<clickValue, totalClicks, milestonesPurchased,
                     milestoneModalDismissed, passiveIncomePerSecond, upgrades,
                     workers, sessionCount, isLoaded, lastOfflineEarnings,
                     lastOfflineTimeAway, storage, now>>
      /\ Done("addOfflineEarnings", "ok")

\* mutant: a worker entry of the document is dropped
SavedWorkerOrDropped(savedWorkers, key, baseCost) ==
  [count |-> 0, cost |-> baseCost]

\* a saved worker entry, or count 0 at the base cost when the key is absent
SavedWorkerOr(savedWorkers, key, baseCost) ==
  IF key \in DOMAIN savedWorkers
    THEN [count |-> savedWorkers[key].count, cost |-> savedWorkers[key].cost]
    ELSE [count |-> 0, cost |-> baseCost]

\* loadProgress()
loadProgress ==
  IF Len(loadGame) = 0
    THEN /\ isLoaded' = TRUE
         /\ sessionCount' = 1
         /\ UNCHANGED <<balance, clickValue, totalClicks, garageLevel,
                        milestonesPurchased, showMilestoneModal,
                        pendingMilestoneLevel, milestoneModalDismissed,
                        passiveIncomePerSecond, upgrades, workers, totalEarned,
                        lastOfflineEarnings, lastOfflineTimeAway, storage, now>>
         /\ Done("loadProgress", "new_game")
    ELSE LET saveData == loadGame[1]
             playerData == saveData.playerData
             restoredPurchased ==
               IF "milestonesPurchased" \in DOMAIN playerData
                 THEN playerData.milestonesPurchased ELSE <<>>
             savedWorkers == saveData.workers
             mechanicSaveData == savedWorkers["mechanic"]
             shouldResetMechanics ==
               mechanicSaveData.count > 0 /\ ~Includes(restoredPurchased, 5)
             restoredWorkers ==
               [w \in WorkerTypes |->
                  CASE w = "apprentice" -> [count |-> savedWorkers["apprentice"].count,
                                            cost  |-> savedWorkers["apprentice"].cost]
                    [] w = "mechanic"   -> IF shouldResetMechanics
                                             THEN [count |-> 0, cost |-> BASE_COSTS.mechanic]
                                             ELSE [count |-> mechanicSaveData.count,
                                                   cost  |-> mechanicSaveData.cost]
                    [] w = "master"     -> SavedWorkerOr(savedWorkers, "master",
                                             BASE_COSTS.master)
                    [] w = "brigadier"  -> IF "brigadier" \in DOMAIN savedWorkers
                                             THEN SavedWorkerOr(savedWorkers, "brigadier",
                                                    BASE_COSTS.brigadier)
                                             ELSE SavedWorkerOr(savedWorkers, "foreman",
                                                    BASE_COSTS.brigadier)
                    [] w = "director"   -> SavedWorkerOr(savedWorkers, "director",
                                             BASE_COSTS.director)]
             restoredUpgrades ==
               [clickPower |-> [level |-> saveData.upgrades.clickPower.level,
                                cost  |-> saveData.upgrades.clickPower.cost],
                workSpeed  |-> [level |-> saveData.upgrades.workSpeed.level,
                                cost  |-> saveData.upgrades.workSpeed.cost]]
             passiveIncome ==
               calculateTotalPassiveIncome(restoredWorkers, restoredUpgrades.workSpeed.level)
             offlineEarnings ==
               calculateOfflineEarnings(passiveIncome, saveData.timestamp, 24, now)
             offlineTimeAway ==
               IF saveData.timestamp > 0 THEN now - saveData.timestamp ELSE 0
             restoredClickValue == calculateClickIncome(restoredUpgrades.clickPower.level)
             autoLevel == checkAutoLevel(playerData.balance, 1, restoredPurchased)
             \* after set(...): addOfflineEarnings when offlineEarnings > 0
             credited ==
               IF offlineEarnings # NumZero
                 THEN creditOfflineEarnings(playerData.balance, saveData.stats.totalEarned,
                        autoLevel, restoredPurchased, showMilestoneModal,
                        pendingMilestoneLevel, milestoneModalDismissed, offlineEarnings)
                 ELSE [balance |-> playerData.balance,
                       totalEarned |-> saveData.stats.totalEarned,
                       garageLevel |-> autoLevel, show |-> showMilestoneModal,
                       pending |-> pendingMilestoneLevel]
             \* the closing checkForMilestone()
             modal == checkForMilestone(credited.balance, restoredPurchased,
                        credited.show, credited.pending, milestoneModalDismissed)
         IN  /\ balance' = credited.balance
             /\ totalClicks' = playerData.totalClicks
             /\ garageLevel' = credited.garageLevel
             /\ milestonesPurchased' = restoredPurchased
             /\ clickValue' = restoredClickValue
             /\ upgrades' = restoredUpgrades
             /\ workers' = restoredWorkers
             /\ totalEarned' = credited.totalEarned
             /\ sessionCount' = saveData.stats.sessionCount + 1
             /\ passiveIncomePerSecond' = passiveIncome
             /\ isLoaded' = TRUE
             /\ lastOfflineEarnings' = offlineEarnings
             /\ lastOfflineTimeAway' = offlineTimeAway
             /\ showMilestoneModal' = modal[1]
             /\ pendingMilestoneLevel' = modal[2]
             /\ UNCHANGED <<milestoneModalDismissed, storage, now>>
             /\ Done("loadProgress", "restored")

\* clearOfflineEarnings()
clearOfflineEarnings ==
  /\ lastOfflineEarnings' = NumZero
  /\ lastOfflineTimeAway' = 0
  /\ UNCHANGED <<balance, clickValue, totalClicks, garageLevel, milestonesPurchased,
                 showMilestoneModal, pendingMilestoneLevel, milestoneModalDismissed,
                 passiveIncomePerSecond, upgrades, workers, totalEarned,
                 sessionCount, isLoaded, storage, now>>
  /\ Done("clearOfflineEarnings", "ok")

\* mutant: purchaseMilestone without the funds check
purchaseMilestoneCheckNoFunds(level) ==
  IF level \notin DOMAIN MILESTONE_UPGRADES THEN "unknown_level"
  ELSE IF Includes(milestonesPurchased, level) THEN "already_purchased"
  ELSE "ok"

\* the checks of purchaseMilestone, in order: what the call reports
purchaseMilestoneCheck(level) ==
  IF level \notin DOMAIN MILESTONE_UPGRADES THEN "unknown_level"
  ELSE IF Includes(milestonesPurchased, level) THEN "already_purchased"
  ELSE IF NumLt(balance, MILESTONE_UPGRADES[level].cost) THEN "insufficient_funds"
  ELSE "ok"

\* mutant: purchaseMilestone walking from the current level only
purchaseMilestoneNoJump(level) ==
  LET status == purchaseMilestoneCheck(level)
  IN  IF status # "ok" THEN Report("purchaseMilestone", status)
      ELSE LET newBalance   == NumSub(balance, MILESTONE_UPGRADES[level].cost)
               newPurchased == Append(milestonesPurchased, level)
           IN  /\ balance' = newBalance
               /\ milestonesPurchased' = newPurchased
               /\ garageLevel' = checkAutoLevel(newBalance, garageLevel, newPurchased)
               /\ showMilestoneModal' = FALSE
               /\ pendingMilestoneLevel' = 0
               /\ milestoneModalDismissed' = FALSE
               /\ UNCHANGED <<clickValue, totalClicks, passiveIncomePerSecond,
                              upgrades, workers, totalEarned, sessionCount, isLoaded,
                              lastOfflineEarnings, lastOfflineTimeAway, storage, now>>
               /\ Done("purchaseMilestone", status)

\* purchaseMilestone(level)
purchaseMilestone(level) ==
  LET status == purchaseMilestoneCheck(level)
  IN  IF status # "ok" THEN Report("purchaseMilestone", status)
      ELSE LET newBalance   == NumSub(balance, MILESTONE_UPGRADES[level].cost)
               newPurchased == Append(milestonesPurchased, level)
               baseLevel    == IF garageLevel > level THEN garageLevel ELSE level
               newLevel     == checkAutoLevel(newBalance, baseLevel, newPurchased)
           IN  /\ balance' = newBalance
               /\ milestonesPurchased' = newPurchased
               /\ garageLevel' = newLevel
               /\ showMilestoneModal' = FALSE
               /\ pendingMilestoneLevel' = 0
               /\ milestoneModalDismissed' = FALSE
               /\ UNCHANGED <<clickValue, totalClicks, passiveIncomePerSecond,
                              upgrades, workers, totalEarned, sessionCount, isLoaded,
                              lastOfflineEarnings, lastOfflineTimeAway, storage, now>>
               /\ Done("purchaseMilestone", status)

\* mutant: closeMilestoneModal that keeps pendingMilestoneLevel
closeMilestoneModalKeepPending ==
  /\ showMilestoneModal' = FALSE
  /\ milestoneModalDismissed' = TRUE
  /\ UNCHANGED <<balance, clickValue, totalClicks, garageLevel, milestonesPurchased,
                 pendingMilestoneLevel, passiveIncomePerSecond, upgrades, workers,
                 totalEarned, sessionCount, isLoaded, lastOfflineEarnings,
                 lastOfflineTimeAway, storage, now>>
  /\ Done("closeMilestoneModal", "ok")

\* closeMilestoneModal()
closeMilestoneModal ==
  /\ showMilestoneModal' = FALSE
  /\ pendingMilestoneLevel' = 0
  /\ milestoneModalDismissed' = TRUE
  /\ UNCHANGED <<balance, clickValue, totalClicks, garageLevel, milestonesPurchased,
                 passiveIncomePerSecond, upgrades, workers, totalEarned,
                 sessionCount, isLoaded, lastOfflineEarnings, lastOfflineTimeAway,
                 storage, now>>
  /\ Done("closeMilestoneModal", "ok")

\* mutant: resetGame without clearSave()
resetGameKeepSave ==
  /\ balance' = NumZero
  /\ clickValue' = 1
  /\ totalClicks' = Cnt(0)
  /\ garageLevel' = 1
  /\ milestonesPurchased' = <<>>
  /\ showMilestoneModal' = FALSE
  /\ pendingMilestoneLevel' = 0
  /\ milestoneModalDismissed' = FALSE
  /\ passiveIncomePerSecond' = 0
  /\ upgrades' = initialUpgrades
  /\ workers' = initialWorkers
  /\ totalEarned' = NumZero
  /\ sessionCount' = 0
  /\ isLoaded' = TRUE
  /\ lastOfflineEarnings' = NumZero
  /\ lastOfflineTimeAway' = 0
  /\ UNCHANGED <<storage, now>>
  /\ Done("resetGame", "ok")

\* resetGame(): clearSave(), then set({...initialState, isLoaded: true})
resetGame ==
  /\ storage' = <<>>
  /\ balance' = NumZero
  /\ clickValue' = 1
  /\ totalClicks' = Cnt(0)
  /\ garageLevel' = 1
  /\ milestonesPurchased' = <<>>
  /\ showMilestoneModal' = FALSE
  /\ pendingMilestoneLevel' = 0
  /\ milestoneModalDismissed' = FALSE
  /\ passiveIncomePerSecond' = 0
  /\ upgrades' = initialUpgrades
  /\ workers' = initialWorkers
  /\ totalEarned' = NumZero
  /\ sessionCount' = 0
  /\ isLoaded' = TRUE
  /\ lastOfflineEarnings' = NumZero
  /\ lastOfflineTimeAway' = 0
  /\ UNCHANGED now
  /\ Done("resetGame", "ok")

\* time passes while no timer of the store fires
Elapse(seconds) ==
  /\ Len(storage) > 0
  /\ steps < MaxSteps
  /\ steps' = steps + 1
  /\ now' = now + seconds
  /\ UNCHANGED <<storeVars, storage, ret, calVars>>

\* amounts passed to addOfflineEarnings
OfflineAmounts == { RubE(9, 2) }

Next ==
  \/ \E isCritical \in BOOLEAN : handleClick(isCritical)
  \/ purchaseClickUpgrade
  \/ purchaseWorkSpeedUpgrade
  \/ \E workerType \in HireInputs : hireWorker(workerType)
  \/ tickPassiveIncome
  \/ saveProgress
  \/ loadProgress
  \/ \E amount \in OfflineAmounts : addOfflineEarnings(amount)
  \/ clearOfflineEarnings
  \/ \E level \in MilestoneInputs : purchaseMilestone(level)
  \/ closeMilestoneModal
  \/ resetGame
  \/ \E seconds \in ElapseSeconds : Elapse(seconds)

Spec == Init /\ [][Next]_vars

\* ------------------------------------------------------------------------
\* The click upgrade from stores in which upgrades were bought
\* ------------------------------------------------------------------------

\* the cost of the first k click upgrades, in roubles
RECURSIVE ClickUpgradesCost(_)
ClickUpgradesCost(k) ==
  IF k = 0 THEN 0
  ELSE ClickUpgradesCost(k - 1) + calculateUpgradeCost(BASE_COSTS.clickUpgrade, k - 1)

\* The store as created, after a run of clicks and then k calls of
\* purchaseClickUpgrade whose saves the storage did not take.
StoreAfterClickUpgrades(run, k) ==
    LET earned == RubE(run[1], run[2])
        modal  == checkForMilestone(earned, <<>>, FALSE, 0, FALSE)
    IN  /\ balance = NumSub(earned, Rub(ClickUpgradesCost(k)))
        /\ clickValue = calculateClickIncome(k)
        /\ totalClicks = CntE(run[1], run[2])
        /\ garageLevel = checkAutoLevel(earned, 1, <<>>)
        /\ milestonesPurchased = <<>>
        /\ showMilestoneModal = modal[1]
        /\ pendingMilestoneLevel = modal[2]
        /\ milestoneModalDismissed = FALSE
        /\ passiveIncomePerSecond = 0
        /\ upgrades = [initialUpgrades EXCEPT !.clickPower =
                         [level |-> k,
                          cost  |-> calculateUpgradeCost(BASE_COSTS.clickUpgrade, k)]]
        /\ workers = initialWorkers
        /\ totalEarned = earned
        /\ sessionCount = 0
        /\ isLoaded = FALSE
        /\ lastOfflineEarnings = NumZero
        /\ lastOfflineTimeAway = 0
        /\ storage = <<>>
        /\ now = 1
        /\ ret = NoCall
        /\ steps = 0

\* runs of clicks and numbers of upgrades bought before the first step
UpgradeRuns == { <<2, 3>>, <<1, 4>>, <<1, 6>> }

UpgradesBought == {0, 1, 2}

InitClickUpgrades ==
  /\ \E run \in UpgradeRuns : \E k \in UpgradesBought :
       StoreAfterClickUpgrades(run, k)
  /\ calArgs = initialCalArgs
  /\ calResult = 0

NextClickUpgrades ==
  \/ purchaseClickUpgrade
  \/ \E isCritical \in BOOLEAN : handleClick(isCritical)
  \/ loadProgress

SpecClickUpgrades == InitClickUpgrades /\ [][NextClickUpgrades]_vars

\* ------------------------------------------------------------------------
\* Calls with arguments outside the declared types
\* ------------------------------------------------------------------------

\* strings that are no WorkerType
UndeclaredWorkerTypes == {"manager"} \cup ObjectPrototypeKeys

\* numbers that are no MilestoneLevel
UndeclaredLevels == {0, 7, 25}

NextCallerBug ==
  \/ \E workerType \in UndeclaredWorkerTypes : hireWorker(workerType)
  \/ \E level \in MilestoneSet \cup UndeclaredLevels : purchaseMilestone(level)

SpecCallerBug == Init /\ [][NextCallerBug]_vars

\* ------------------------------------------------------------------------
\* checkAutoLevel as a pure function: calls on drawn arguments
\* ------------------------------------------------------------------------

\* balances passed to checkAutoLevel: every threshold, and a tenth of a
\* rouble below every threshold above 0
CalBalances ==
  { GARAGE_LEVEL_THRESHOLDS[l] : l \in 1..20 } \cup
  { NumSub(GARAGE_LEVEL_THRESHOLDS[l], <<0, 1>>) : l \in 2..20 }

\* milestone arrays passed to checkAutoLevel: every subset of the milestone
\* levels in ascending order, and two arrays bought out of order
CalMilestones ==
  { SelectSeq(MILESTONE_LEVELS, LAMBDA m : m \in S) : S \in SUBSET MilestoneSet }
    \cup { <<10, 5>>, <<20, 10>> }

CalInputs ==
  [balance : CalBalances, currentLevel : 1..20, milestonesPurchased : CalMilestones]

InitCheckAutoLevel ==
  /\ StoreAfterClicks(<<0, 0>>)
  /\ calArgs \in CalInputs
  /\ calResult = 0

\* a call checkAutoLevel(balance, currentLevel, milestonesPurchased)
callCheckAutoLevel ==
  /\ calResult = 0
  /\ calResult' = checkAutoLevel(calArgs.balance, calArgs.currentLevel,
                                 calArgs.milestonesPurchased)
  /\ UNCHANGED <<storeVars, storage, now, ret, steps, calArgs>>

NextCheckAutoLevel == callCheckAutoLevel

SpecCheckAutoLevel == InitCheckAutoLevel /\ [][NextCheckAutoLevel]_vars

\* ------------------------------------------------------------------------
\* saveGame and loadGame as a pair: a save of a drawn document, then a load
\* ------------------------------------------------------------------------

\* two documents that give every field
FullDocA ==
  [playerData |-> [balance |-> Rub(9500), nuts |-> 3, totalClicks |-> Cnt(10000),
                   garageLevel |-> 2, milestonesPurchased |-> <<5>>],
   upgrades   |-> [clickPower |-> [level |-> 1, cost |-> 114],
                   workSpeed  |-> [level |-> 2, cost |-> 661]],
   workers    |-> [apprentice |-> [count |-> 1, cost |-> 575],
                   mechanic   |-> [count |-> 2, cost |-> 6612],
                   master     |-> [count |-> 0, cost |-> 50000],
                   brigadier  |-> [count |-> 0, cost |-> 500000],
                   director   |-> [count |-> 0, cost |-> 5000000]],
   stats      |-> [totalEarned |-> Rub(10000), sessionCount |-> 3,
                   lastSessionDate |-> "2026-01-02"]]

FullDocB ==
  [version    |-> 0,
   timestamp  |-> 99,
   playerData |-> [balance |-> RubE(2, 15), nuts |-> 0, totalClicks |-> CntE(2, 15),
                   garageLevel |-> 4, milestonesPurchased |-> <<>>],
   upgrades   |-> [clickPower |-> [level |-> 0, cost |-> 100],
                   workSpeed  |-> [level |-> 0, cost |-> 500]],
   workers    |-> [apprentice |-> [count |-> 3, cost |-> 760],
                   mechanic   |-> [count |-> 0, cost |-> 5000],
                   master     |-> [count |-> 0, cost |-> 50000],
                   brigadier  |-> [count |-> 0, cost |-> 500000],
                   director   |-> [count |-> 0, cost |-> 5000000]],
   stats      |-> [totalEarned |-> RubE(2, 15), sessionCount |-> 1,
                   lastSessionDate |-> "2026-01-01"]]

\* the documents passed to saveGame: FullDocB, every choice of sections of
\* FullDocA (all of them, some, none), and documents that give a part of a
\* section
SaveInputs ==
  { FullDocB } \cup
  { [k \in S |-> FullDocA[k]] : S \in SUBSET (DOMAIN FullDocA) } \cup
  { [playerData |-> [balance |-> Rub(5)]],
    [workers |-> [apprentice |-> [count |-> 2]]],
    [upgrades |-> [clickPower |-> [level |-> 3, cost |-> 152]],
     stats |-> [sessionCount |-> 8]] }

\* a document of an older version of the game: no milestonesPurchased, the
\* worker types of that version
LegacyDocument ==
  [version    |-> 1,
   timestamp  |-> 1,
   playerData |-> [balance |-> Rub(700), nuts |-> 0, totalClicks |-> Cnt(700),
                   garageLevel |-> 1],
   upgrades   |-> [clickPower |-> [level |-> 0, cost |-> 100],
                   workSpeed  |-> [level |-> 0, cost |-> 500]],
   workers    |-> [apprentice |-> [count |-> 1, cost |-> 575],
                   mechanic   |-> [count |-> 1, cost |-> 5750],
                   foreman    |-> [count |-> 1, cost |-> 57500]],
   stats      |-> [totalEarned |-> Rub(7000), sessionCount |-> 2,
                   lastSessionDate |-> "2025-12-31"]]

\* a document isValidSaveData rejects: it has no stats
CorruptDocument ==
  [version    |-> 1,
   timestamp  |-> 1,
   playerData |-> [balance |-> Rub(700), nuts |-> 0, totalClicks |-> Cnt(700),
                   garageLevel |-> 1],
   upgrades   |-> [clickPower |-> [level |-> 0, cost |-> 100],
                   workSpeed  |-> [level |-> 0, cost |-> 500]],
   workers    |-> [apprentice |-> [count |-> 1, cost |-> 575],
                   mechanic   |-> [count |-> 1, cost |-> 5750]]]

\* what an earlier session left under the storage key
PriorDocuments ==
  { [FullDocB EXCEPT !.version = 1], LegacyDocument, CorruptDocument }

InitRoundTrip ==
  /\ StoreAfterClicks(<<0, 0>>)
  /\ calArgs \in [doc : SaveInputs]
  /\ calResult = [stage |-> "start", prior |-> <<>>, loaded |-> <<>>]

\* an earlier session wrote a document
priorSession(document) ==
  /\ calResult.stage = "start"
  /\ storage' = <<document>>
  /\ calResult' = [calResult EXCEPT !.stage = "seeded"]
  /\ UNCHANGED <<storeVars, now, ret, steps, calArgs>>

\* the call saveGame(doc)
callSaveGame ==
  /\ calResult.stage \in {"start", "seeded"}
  /\ storage' = saveGame(calArgs.doc, now)
  /\ calResult' = [calResult EXCEPT !.stage = "saved", !.prior = storage]
  /\ UNCHANGED <<storeVars, now, ret, steps, calArgs>>

\* the call loadGame()
callLoadGame ==
  /\ calResult.stage = "saved"
  /\ calResult' = [calResult EXCEPT !.stage = "loaded", !.loaded = loadGame]
  /\ UNCHANGED <<storeVars, storage, now, ret, steps, calArgs>>

NextRoundTrip ==
  \/ \E document \in PriorDocuments : priorSession(document)
  \/ callSaveGame
  \/ callLoadGame

SpecRoundTrip == InitRoundTrip /\ [][NextRoundTrip]_vars

\* ------------------------------------------------------------------------
\* loadGame as a function of what the storage key holds
\* ------------------------------------------------------------------------

\* documents as saveGame writes them
WellFormedDocuments ==
  { [FullDocB EXCEPT !.version = 1], LegacyDocument,
    [k \in DOMAIN FullDocA \cup {"version", "timestamp"} |->
       IF k = "version" THEN 1 ELSE IF k = "timestamp" THEN 500 ELSE FullDocA[k]] }

\* the keys isValidSaveData tests: those of the document, and those of the
\* sections playerData, upgrades and workers
TopLevelKeys == {"version", "timestamp", "playerData", "upgrades", "workers", "stats"}

NestedKeys ==
  { <<"playerData", "balance">>, <<"playerData", "totalClicks">>,
    <<"playerData", "garageLevel">>, <<"upgrades", "clickPower">>,
    <<"upgrades", "workSpeed">>, <<"workers", "apprentice">>,
    <<"workers", "mechanic">> }

\* the object without a key
WithoutKey(object, key) == [k \in DOMAIN object \ {key} |-> object[k]]

\* doc with a key absent, or holding a value of another type than a number
\* (for a number) or than an object or array (for an object)
WithoutTopLevel(doc, key) == WithoutKey(doc, key)

WithoutNested(doc, path) ==
  [doc EXCEPT ![path[1]] = WithoutKey(doc[path[1]], path[2])]

\* doc with an empty array where an object belongs
ArrayAtTopLevel(doc, key) == [doc EXCEPT ![key] = <<>>]

ArrayAtNested(doc, path) == [doc EXCEPT ![path[1]][path[2]] = <<>>]

ObjectPaths ==
  { p \in NestedKeys : p[1] \in {"upgrades", "workers"} }

\* what the storage key can hold when the game starts
StoredBlobs ==
  WellFormedDocuments \cup { UnparseableText } \cup
  UNION { { WithoutTopLevel(d, k) : k \in TopLevelKeys } \cup
          { WithoutNested(d, p) : p \in NestedKeys } \cup
          { ArrayAtTopLevel(d, k) : k \in TopLevelKeys \ {"version", "timestamp"} } \cup
          { ArrayAtNested(d, p) : p \in ObjectPaths }
          : d \in WellFormedDocuments }

InitLoadGame ==
  /\ StoreAfterClicks(<<0, 0>>)
  /\ calArgs = initialCalArgs
  /\ calResult = [stage |-> "start", prior |-> <<>>, loaded |-> <<>>]

\* the call loadGame() when the game starts
callLoadGameAtStart ==
  /\ calResult.stage \in {"start", "seeded"}
  /\ calResult' = [calResult EXCEPT !.stage = "loaded", !.loaded = loadGame]
  /\ UNCHANGED <<storeVars, storage, now, ret, steps, calArgs>>

NextLoadGame ==
  \/ \E blob \in StoredBlobs : priorSession(blob)
  \/ callLoadGameAtStart

SpecLoadGame == InitLoadGame /\ [][NextLoadGame]_vars

\* ------------------------------------------------------------------------
\* calculateOfflineEarnings as a pure function: calls on drawn arguments
\* ------------------------------------------------------------------------

\* rates passed, in tenths of a rouble per second (100 is 10 roubles)
OfflineRates == {-20, 0, 20, 22, 100, 271766}

\* timestamps of the last save, in seconds (0: none)
OfflineTimestamps == {0, 1000, 100000}

\* seconds from the last save to the call
OfflineElapsed ==
  {-5, 0, 30, 59, 60, 61, 90, 3599, 3600, 3601, 86399, 86400, 86401, 200000}

OfflineMaxHours == {1, 24}

OfflineInputs ==
  [passiveIncomePerSec : OfflineRates, lastTimestamp : OfflineTimestamps,
   maxOfflineHours : OfflineMaxHours, elapsed : OfflineElapsed]

InitOfflineEarnings ==
  /\ StoreAfterClicks(<<0, 0>>)
  /\ calArgs \in OfflineInputs
  /\ calResult = [stage |-> "start", value |-> NumZero]

\* a call calculateOfflineEarnings(passiveIncomePerSec, lastTimestamp,
\* maxOfflineHours) made elapsed seconds after lastTimestamp
callCalculateOfflineEarnings ==
  /\ calResult.stage = "start"
  /\ calResult' =
       [stage |-> "returned",
        value |-> calculateOfflineEarnings(calArgs.passiveIncomePerSec,
                    calArgs.lastTimestamp, calArgs.maxOfflineHours,
                    calArgs.lastTimestamp + calArgs.elapsed)]
  /\ UNCHANGED <<storeVars, storage, now, ret, steps, calArgs>>

NextOfflineEarnings == callCalculateOfflineEarnings

SpecOfflineEarnings == InitOfflineEarnings /\ [][NextOfflineEarnings]_vars

\* ------------------------------------------------------------------------
\* The host component (App): its timers and its save effects
\* ------------------------------------------------------------------------

\* setInterval(saveProgress, AUTO_SAVE_INTERVAL_MS)
AUTO_SAVE_INTERVAL_MS == 30000

\* the delay of the debounced save
SAVE_DEBOUNCE_MS == 5000

\* the period of the interval of startPassiveIncome
PASSIVE_INCOME_INTERVAL_MS == 1000

\* host time is counted in periods of the passive-income interval, which
\* are seconds
AutoSaveSeconds == AUTO_SAVE_INTERVAL_MS \div PASSIVE_INCOME_INTERVAL_MS

SaveDebounceSeconds == SAVE_DEBOUNCE_MS \div PASSIVE_INCOME_INTERVAL_MS

PassiveIncomeSeconds == PASSIVE_INCOME_INTERVAL_MS \div PASSIVE_INCOME_INTERVAL_MS

\* While the host is mounted the amounts of the store are kept modulo a
\* window, so that a session of any length is a walk through finitely many
\* states.  The effects compare balance and garageLevel with their values at
\* the last render: an increment that is positive and below the window
\* changes the kept balance exactly when it changes the balance.
\* BalanceWindow is in roubles, ClickWindow in clicks.
BalanceWindow == 3

ClickWindow == 2

InWindow(a, window) == <<0, a[2] % window>>

\* the document a prior session left: one apprentice, saved at the present
\* reading of the clock
HostSavedDocument ==
  [version    |-> 1,
   timestamp  |-> 1,
   playerData |-> [balance |-> Rub(1), nuts |-> 0, totalClicks |-> Cnt(1),
                   garageLevel |-> 1, milestonesPurchased |-> <<>>],
   upgrades   |-> [clickPower |-> [level |-> 0, cost |-> 100],
                   workSpeed  |-> [level |-> 0, cost |-> 500]],
   workers    |-> [apprentice |-> [count |-> 1, cost |-> 575],
                   mechanic   |-> [count |-> 0, cost |-> 5000],
                   master     |-> [count |-> 0, cost |-> 50000],
                   brigadier  |-> [count |-> 0, cost |-> 500000],
                   director   |-> [count |-> 0, cost |-> 5000000]],
   stats      |-> [totalEarned |-> Rub(1), sessionCount |-> 1,
                   lastSessionDate |-> "2026-01-01"]]

\* The host: phase is "start", "seeded" (a prior session left a document)
\* or "mounted" (the effects have run with isLoaded true); timeouts the
\* pending setTimeout timers of the debounced save, each with its id and
\* the seconds it has left; saveTimerRef is saveTimerRef.current (0 = null);
\* passiveIn and autoSaveIn the seconds left to the next callback of the two
\* intervals; quiet the seconds since balance or garageLevel last changed
\* (counted up to SaveDebounceSeconds); event the last thing that happened.
HostAtStart ==
  [phase |-> "start", timeouts |-> {}, saveTimerRef |-> 0, passiveIn |-> 0,
   autoSaveIn |-> 0, quiet |-> 0, event |-> "none"]

\* the id setTimeout returns: one no pending timer has
FreshTimerId(timeouts) ==
  CHOOSE id \in 1..(Cardinality(timeouts) + 1) :
    /\ \A t \in timeouts : t.id # id
    /\ \A lower \in 1..(id - 1) : \E t \in timeouts : t.id = lower

\* clearTimeout(id)
clearTimeout(timeouts, id) == { t \in timeouts : t.id # id }

\* mutant: the debounced save effect arming a timer without cancelling the
\* pending one
saveEffectNoCancel(host, changed, loaded) ==
  IF ~changed THEN host
  ELSE IF ~loaded THEN host
  ELSE LET id == FreshTimerId(host.timeouts)
       IN  [host EXCEPT !.timeouts = @ \cup {[id |-> id, remaining |-> SaveDebounceSeconds]},
                        !.saveTimerRef = id,
                        !.quiet = 0]

\* The debounced save effect, run again when one of its dependencies
\* (balance, garageLevel, isLoaded) changed: the cleanup of the last run
\* clears the timer of saveTimerRef, then the body returns when not loaded,
\* else clears that timer and arms a new one.
saveEffect(host, changed, loaded) ==
  IF ~changed THEN host
  ELSE LET cleared == clearTimeout(host.timeouts, host.saveTimerRef)
       IN  IF ~loaded THEN [host EXCEPT !.timeouts = cleared, !.quiet = 0]
           ELSE LET id == FreshTimerId(cleared)
                IN  [host EXCEPT !.timeouts =
                                   cleared \cup {[id |-> id, remaining |-> SaveDebounceSeconds]},
                                 !.saveTimerRef = id,
                                 !.quiet = 0]

InitHost ==
  /\ StoreAfterClicks(<<0, 0>>)
  /\ calArgs = initialCalArgs
  /\ calResult = HostAtStart

\* a prior session left its document under the storage key
hostPriorSession ==
  /\ calResult.phase = "start"
  /\ ~isLoaded
  /\ storage' = <<HostSavedDocument>>
  /\ calResult' = [calResult EXCEPT !.phase = "seeded"]
  /\ UNCHANGED <<storeVars, now, ret, steps, calArgs>>

\* the load effect of the mount: loadProgress()
hostLoad ==
  /\ calResult.phase \in {"start", "seeded"}
  /\ ~isLoaded
  /\ loadProgress

\* The render that follows the load: startPassiveIncome() has armed its
\* interval, the autosave effect arms its interval and the debounced save
\* effect runs with isLoaded true.
hostCommit ==
  /\ calResult.phase \in {"start", "seeded"}
  /\ isLoaded
  /\ calResult' =
       [saveEffect(calResult, TRUE, isLoaded) EXCEPT
          !.phase = "mounted", !.passiveIn = PassiveIncomeSeconds,
          !.autoSaveIn = AutoSaveSeconds, !.event = "mount"]
  /\ UNCHANGED <<storeVars, storage, now, ret, steps, calArgs>>

\* a timer is due
TimerDue ==
  \/ calResult.passiveIn = 0
  \/ calResult.autoSaveIn = 0
  \/ \E t \in calResult.timeouts : t.remaining = 0

\* A second passes with no timer due.  The reading of Date.now() is held:
\* it enters only the timestamp of the saved document.
hostPassSecond ==
  /\ calResult.phase = "mounted"
  /\ ~TimerDue
  /\ calResult' =
       [calResult EXCEPT
          !.timeouts = { [t EXCEPT !.remaining = @ - 1] : t \in calResult.timeouts },
          !.passiveIn = @ - 1,
          !.autoSaveIn = @ - 1,
          !.quiet = IF @ < SaveDebounceSeconds THEN @ + 1 ELSE @,
          !.event = "second"]
  /\ UNCHANGED <<storeVars, storage, now, ret, steps, calArgs>>

\* the player clicks the garage: handleClick(), then the render and its
\* effects
hostClick(isCritical) ==
  /\ calResult.phase = "mounted"
  /\ LET income     == IF isCritical THEN clickValue * CRITICAL_CLICK_MULTIPLIER
                       ELSE clickValue
         newBalance == InWindow(NumAdd(balance, Rub(income)), 10 * BalanceWindow)
         newLevel   == checkAutoLevel(newBalance, garageLevel, milestonesPurchased)
         modal      == checkForMilestone(newBalance, milestonesPurchased,
                         showMilestoneModal, pendingMilestoneLevel,
                         milestoneModalDismissed)
         status     == IF isCritical THEN "critical" ELSE "normal"
     IN  /\ balance' = newBalance
         /\ totalClicks' = InWindow(NumAdd(totalClicks, Cnt(1)), ClickWindow)
         /\ totalEarned' = InWindow(NumAdd(totalEarned, Rub(income)), 10 * BalanceWindow)
         /\ garageLevel' = newLevel
         /\ showMilestoneModal' = modal[1]
         /\ pendingMilestoneLevel' = modal[2]
         /\ ret' = [op |-> "handleClick", status |-> status,
                    value |-> ReturnValue("handleClick", status)]
         /\ calResult' =
              [saveEffect(calResult, newBalance # balance \/ newLevel # garageLevel,
                          isLoaded) EXCEPT !.event = "click"]
  /\ UNCHANGED <<clickValue, milestonesPurchased, milestoneModalDismissed,
                 passiveIncomePerSecond, upgrades, workers, sessionCount, isLoaded,
                 lastOfflineEarnings, lastOfflineTimeAway, storage, now, steps,
                 calArgs>>

\* the interval of startPassiveIncome fires, then the render and its effects
hostTick ==
  /\ calResult.phase = "mounted"
  /\ calResult.passiveIn = 0
  /\ IF passiveIncomePerSecond <= 0
       THEN /\ UNCHANGED storeVars
            /\ ret' = [op |-> "tick", status |-> "idle",
                       value |-> ReturnValue("tick", "idle")]
            /\ calResult' = [calResult EXCEPT !.passiveIn = PassiveIncomeSeconds,
                                              !.event = "tick"]
       ELSE LET rate       == <<0, passiveIncomePerSecond>>
                newBalance == InWindow(NumAdd(balance, rate), 10 * BalanceWindow)
                newLevel   == checkAutoLevel(newBalance, garageLevel, milestonesPurchased)
                modal      == checkForMilestone(newBalance, milestonesPurchased,
                                showMilestoneModal, pendingMilestoneLevel,
                                milestoneModalDismissed)
            IN  /\ balance' = newBalance
                /\ totalEarned' = InWindow(NumAdd(totalEarned, rate), 10 * BalanceWindow)
                /\ garageLevel' = newLevel
                /\ showMilestoneModal' = modal[1]
                /\ pendingMilestoneLevel' = modal[2]
                /\ UNCHANGED <<clickValue, totalClicks, milestonesPurchased,
                               milestoneModalDismissed, passiveIncomePerSecond,
                               upgrades, workers, sessionCount, isLoaded,
                               lastOfflineEarnings, lastOfflineTimeAway>>
                /\ ret' = [op |-> "tick", status |-> "paid",
                           value |-> ReturnValue("tick", "paid")]
                /\ calResult' =
                     [saveEffect(calResult,
                                 newBalance # balance \/ newLevel # garageLevel,
                                 isLoaded) EXCEPT
                        !.passiveIn = PassiveIncomeSeconds, !.event = "tick"]
  /\ UNCHANGED <<storage, now, steps, calArgs>>

\* saveProgress() called by a timer of the host
hostSaveProgress ==
  \E writable \in BOOLEAN :
    LET outcome == saveGameOutcome(SaveDocument(balance, totalClicks, garageLevel,
                     milestonesPurchased, upgrades, workers, totalEarned,
                     sessionCount), now, writable)
        status  == IF outcome.success THEN "ok" ELSE "write_failed"
    IN  /\ storage' = outcome.storage
        /\ ret' = [op |-> "saveProgress", status |-> status,
                   value |-> ReturnValue("saveProgress", status)]
        /\ UNCHANGED <<storeVars, now, steps, calArgs>>

\* the timer of the debounced save fires
hostDebounceFires ==
  /\ calResult.phase = "mounted"
  /\ \E t \in calResult.timeouts :
       /\ t.remaining = 0
       /\ calResult' = [calResult EXCEPT !.timeouts = @ \ {t}, !.event = "debounce"]
  /\ hostSaveProgress

\* the interval of the autosave fires
hostAutoSaveFires ==
  /\ calResult.phase = "mounted"
  /\ calResult.autoSaveIn = 0
  /\ calResult' = [calResult EXCEPT !.autoSaveIn = AutoSaveSeconds,
                                    !.event = "interval"]
  /\ hostSaveProgress

NextHost ==
  \/ hostPriorSession
  \/ hostLoad
  \/ hostCommit
  \/ hostPassSecond
  \/ \E isCritical \in BOOLEAN : hostClick(isCritical)
  \/ hostTick
  \/ hostDebounceFires
  \/ hostAutoSaveFires

SpecHost == InitHost /\ [][NextHost]_vars

\* Timers that are due fire and time passes; the player may stop clicking.
SpecHostFair ==
  /\ SpecHost
  /\ WF_vars(hostLoad)
  /\ WF_vars(hostCommit)
  /\ WF_vars(hostPassSecond)
  /\ WF_vars(hostTick)
  /\ WF_vars(hostDebounceFires)
  /\ WF_vars(hostAutoSaveFires)

\* ------------------------------------------------------------------------
\* loadProgress on documents of earlier versions of the game
\* ------------------------------------------------------------------------

\* the worker entries a document may hold besides apprentice and mechanic
LegacyWorkerEntries ==
  [master    |-> [count |-> 1, cost |-> 57499],
   brigadier |-> [count |-> 2, cost |-> 661249],
   foreman   |-> [count |-> 1, cost |-> 575000],
   director  |-> [count |-> 1, cost |-> 5750000]]

\* LegacyDocument with the given extra worker keys, the given number of
\* mechanics and, when purchased is a one-element sequence, that array as
\* milestonesPurchased (<<>> leaves the field out)
LegacyDocumentWith(keys, mechanics, purchased) ==
  [LegacyDocument EXCEPT
     !.workers =
        [k \in {"apprentice", "mechanic"} \cup keys |->
           IF k = "apprentice" THEN LegacyDocument.workers.apprentice
           ELSE IF k = "mechanic"
             THEN [count |-> mechanics,
                   cost  |-> calculateWorkerCost(BASE_COSTS.mechanic, mechanics)]
           ELSE LegacyWorkerEntries[k]],
     !.playerData =
        IF Len(purchased) = 0 THEN LegacyDocument.playerData
        ELSE [k \in DOMAIN LegacyDocument.playerData \cup {"milestonesPurchased"} |->
                IF k = "milestonesPurchased" THEN purchased[1]
                ELSE LegacyDocument.playerData[k]]]

\* the milestonesPurchased arrays of the documents
LegacyPurchased == { <<>>, <<5>>, <<5, 10, 15>>, <<10>> }

LegacyDocuments ==
  { LegacyDocumentWith(keys, mechanics, purchased) :
      keys \in SUBSET (DOMAIN LegacyWorkerEntries),
      mechanics \in {0, 2},
      purchased \in {<<>>} \cup { <<p>> : p \in LegacyPurchased } }

NextLegacyLoad ==
  \/ \E document \in LegacyDocuments : priorSession(document)
  \/ calResult.stage = "seeded" /\ loadProgress

SpecLegacyLoad == InitLoadGame /\ [][NextLegacyLoad]_vars

\* ------------------------------------------------------------------------
\* The milestone check of the earlier engine
\* ------------------------------------------------------------------------

\* mutant: the check of the earlier engine on the levels whose threshold
\* the balance has reached
RECURSIVE levelDrivenMilestoneByBalance(_, _, _)
levelDrivenMilestoneByBalance(i, level, purchased) ==
  IF i > Len(MILESTONE_LEVELS) THEN 0
  ELSE IF ~Includes(purchased, MILESTONE_LEVELS[i])
    THEN IF NumGe(balance, GARAGE_LEVEL_THRESHOLDS[MILESTONE_LEVELS[i]])
           THEN MILESTONE_LEVELS[i] ELSE 0
  ELSE levelDrivenMilestoneByBalance(i + 1, level, purchased)

\* checkForMilestone() of the earlier engine: the pending level it sets, the
\* first milestone level in the order of MILESTONE_LEVELS from index i that
\* garageLevel has reached and that is not purchased (0 = it sets none)
RECURSIVE levelDrivenMilestone(_, _, _)
levelDrivenMilestone(i, level, purchased) ==
  IF i > Len(MILESTONE_LEVELS) THEN 0
  ELSE IF level >= MILESTONE_LEVELS[i] /\ ~Includes(purchased, MILESTONE_LEVELS[i])
    THEN MILESTONE_LEVELS[i]
  ELSE levelDrivenMilestone(i + 1, level, purchased)

\* ------------------------------------------------------------------------
\* loadProgress called again on the same document
\* ------------------------------------------------------------------------

\* what the storage key holds when the game starts
ReloadDocuments ==
  { HostSavedDocument, LegacyDocument, CorruptDocument,
    [FullDocB EXCEPT !.version = 1] }

NextReload ==
  \/ ret.op = "none" /\ \E document \in ReloadDocuments : priorSession(document)
  \/ \E seconds \in ElapseSeconds : Elapse(seconds)
  \/ loadProgress
  \/ \E isCritical \in BOOLEAN : handleClick(isCritical)

SpecReload == InitLoadGame /\ [][NextReload]_vars

\* ------------------------------------------------------------------------
\* The host component mounted, unmounted and mounted again
\* ------------------------------------------------------------------------
\* The host record gains the live intervals (each with the effect that armed
\* it), the interval each cleanup holds (0: none) and closureLoaded, the
\* isLoaded the last render read from the store.  A live timer may fire at
\* any moment.

AppAtStart ==
  [phase |-> "start", timeouts |-> {}, saveTimerRef |-> 0, passiveIn |-> 0,
   autoSaveIn |-> 0, quiet |-> 0, event |-> "none",
   intervals |-> {}, passiveCleanup |-> 0, autoSaveCleanup |-> 0,
   closureLoaded |-> FALSE]

\* mutant: a clearInterval that cancels nothing
clearIntervalKept(intervals, id) == intervals

\* clearInterval(id)
clearInterval(intervals, id) == { t \in intervals : t.id # id }

\* startPassiveIncome(): arms the interval and returns the disposer that
\* clears it
startPassiveIncome(host) ==
  LET id == FreshTimerId(host.intervals)
  IN  [host EXCEPT !.intervals = @ \cup {[id |-> id, kind |-> "passive"]},
                   !.passiveCleanup = id]

\* mutant: the autosave effect arming its interval whatever isLoaded is
autoSaveEffectUnloaded(host, changed, loaded) ==
  IF ~changed THEN host
  ELSE LET cleared == clearInterval(host.intervals, host.autoSaveCleanup)
           id      == FreshTimerId(cleared)
       IN  [host EXCEPT !.intervals = cleared \cup {[id |-> id, kind |-> "autosave"]},
                        !.autoSaveCleanup = id]

\* The autosave effect, run again when isLoaded changed: the cleanup of the
\* last run clears its interval, then the body returns when not loaded, else
\* arms an interval.
autoSaveEffect(host, changed, loaded) ==
  IF ~changed THEN host
  ELSE LET cleared == clearInterval(host.intervals, host.autoSaveCleanup)
       IN  IF ~loaded THEN [host EXCEPT !.intervals = cleared, !.autoSaveCleanup = 0]
           ELSE LET id == FreshTimerId(cleared)
                IN  [host EXCEPT !.intervals = cleared \cup {[id |-> id, kind |-> "autosave"]},
                                 !.autoSaveCleanup = id]

InitLifecycle ==
  /\ StoreAfterClicks(<<0, 0>>)
  /\ calArgs = initialCalArgs
  /\ calResult = AppAtStart

\* the effects of a commit have run except the load effect
MidCommit == ret.op = "mount"

\* the store holds an isLoaded the last render did not read
RenderPending ==
  calResult.phase = "mounted" /\ calResult.closureLoaded # isLoaded

\* The component mounts: the render reads isLoaded, then the effects of the
\* commit run: startPassiveIncome(), the autosave effect and the debounced
\* save effect with the isLoaded of the render.  (The load effect of the
\* same commit is appLoad; the other effects do not read what it writes and
\* no timer fires between the effects of one commit.)  A strict
\* mount is the second mount of React's StrictMode: the effects run again
\* with the closure and the refs of the first mount.
appMount(strict) ==
  /\ calResult.phase \in {"start", "seeded", "unmounted"}
  /\ strict => calResult.phase = "unmounted"
  /\ steps < MaxSteps
  /\ LET loaded   == IF strict THEN calResult.closureLoaded ELSE isLoaded
         rendered == IF strict THEN calResult
                     ELSE [calResult EXCEPT !.saveTimerRef = 0]
         effects  == saveEffect(autoSaveEffect(startPassiveIncome(rendered),
                                               TRUE, loaded),
                                TRUE, loaded)
     IN  calResult' = [effects EXCEPT !.phase = "mounted",
                                      !.closureLoaded = loaded,
                                      !.event = "mount"]
  /\ ret' = [op |-> "mount", status |-> "effects", value |-> "undefined"]
  /\ UNCHANGED <<storeVars, storage, now, steps, calArgs>>

\* the load effect of the commit: loadProgress()
appLoad ==
  /\ calResult.phase = "mounted"
  /\ MidCommit
  /\ loadProgress

\* The render that follows a change of isLoaded: the autosave effect and the
\* debounced save effect run again.
appRerender ==
  /\ ~MidCommit
  /\ RenderPending
  /\ calResult' =
       [saveEffect(autoSaveEffect(calResult, TRUE, isLoaded), TRUE, isLoaded)
          EXCEPT !.closureLoaded = isLoaded, !.event = "render"]
  /\ UNCHANGED <<storeVars, storage, now, ret, steps, calArgs>>

\* The component unmounts: the cleanups run, the disposer of
\* startPassiveIncome, the clearInterval of the autosave effect and, when the
\* last run of the debounced save effect returned one, the clearTimeout of
\* saveTimerRef.
appUnmount ==
  /\ calResult.phase = "mounted"
  /\ ~MidCommit
  /\ calResult' =
       [calResult EXCEPT
          !.intervals = clearInterval(clearInterval(@, calResult.passiveCleanup),
                                      calResult.autoSaveCleanup),
          !.timeouts = IF calResult.closureLoaded
                         THEN clearTimeout(@, calResult.saveTimerRef)
                         ELSE @,
          !.passiveCleanup = 0,
          !.autoSaveCleanup = 0,
          !.phase = "unmounted",
          !.event = "unmount"]
  /\ UNCHANGED <<storeVars, storage, now, ret, steps, calArgs>>

\* the effects of the render that follows a store update, when the
\* component is mounted
AfterUpdate(host, changed) ==
  IF host.phase = "mounted" THEN saveEffect(host, changed, isLoaded) ELSE host

\* the player clicks the garage of the mounted component
appClick(isCritical) ==
  /\ ~MidCommit
  /\ ~RenderPending
  /\ hostClick(isCritical)

\* a live interval of startPassiveIncome fires
appTick ==
  /\ ~MidCommit
  /\ ~RenderPending
  /\ \E t \in calResult.intervals : t.kind = "passive"
  /\ IF passiveIncomePerSecond <= 0
       THEN /\ UNCHANGED storeVars
            /\ ret' = [op |-> "tick", status |-> "idle",
                       value |-> ReturnValue("tick", "idle")]
            /\ calResult' = [calResult EXCEPT !.event = "tick"]
       ELSE LET rate       == <<0, passiveIncomePerSecond>>
                newBalance == InWindow(NumAdd(balance, rate), 10 * BalanceWindow)
                newLevel   == checkAutoLevel(newBalance, garageLevel, milestonesPurchased)
                modal      == checkForMilestone(newBalance, milestonesPurchased,
                                showMilestoneModal, pendingMilestoneLevel,
                                milestoneModalDismissed)
            IN  /\ balance' = newBalance
                /\ totalEarned' = InWindow(NumAdd(totalEarned, rate), 10 * BalanceWindow)
                /\ garageLevel' = newLevel
                /\ showMilestoneModal' = modal[1]
                /\ pendingMilestoneLevel' = modal[2]
                /\ UNCHANGED <<clickValue, totalClicks, milestonesPurchased,
                               milestoneModalDismissed, passiveIncomePerSecond,
                               upgrades, workers, sessionCount, isLoaded,
                               lastOfflineEarnings, lastOfflineTimeAway>>
                /\ ret' = [op |-> "tick", status |-> "paid",
                           value |-> ReturnValue("tick", "paid")]
                /\ calResult' =
                     [AfterUpdate(calResult,
                                  newBalance # balance \/ newLevel # garageLevel)
                        EXCEPT !.event = "tick"]
  /\ UNCHANGED <<storage, now, steps, calArgs>>

\* a live timer of the debounced save fires
appDebounceFires ==
  /\ ~MidCommit
  /\ ~RenderPending
  /\ \E t \in calResult.timeouts :
       calResult' = [calResult EXCEPT !.timeouts = @ \ {t}, !.event = "debounce"]
  /\ hostSaveProgress

\* a live interval of the autosave fires
appAutoSaveFires ==
  /\ ~MidCommit
  /\ ~RenderPending
  /\ \E t \in calResult.intervals : t.kind = "autosave"
  /\ calResult' = [calResult EXCEPT !.event = "interval"]
  /\ hostSaveProgress

NextLifecycle ==
  \/ hostPriorSession
  \/ \E strict \in BOOLEAN : appMount(strict)
  \/ appLoad
  \/ appRerender
  \/ appUnmount
  \/ \E isCritical \in BOOLEAN : appClick(isCritical)
  \/ appTick
  \/ appDebounceFires
  \/ appAutoSaveFires

SpecLifecycle == InitLifecycle /\ [][NextLifecycle]_vars

\* ------------------------------------------------------------------------
\* Properties
\* ------------------------------------------------------------------------

\* balance >= GARAGE_LEVEL_THRESHOLDS[L]
ThresholdCleared(bal, L) == NumGe(bal, GARAGE_LEVEL_THRESHOLDS[L])

\* L is a milestone level that is not in purchased
UnpurchasedMilestone(purchased, L) ==
  L \in {5, 10, 15, 20} /\ ~(\E i \in DOMAIN purchased : purchased[i] = L)

\* the level the walk from level 1 reaches: every level up to it is cleared
\* and is no unpurchased milestone, and the next one is not such a level
GateAwareWalk(bal, purchased) ==
  CHOOSE L \in 1..20 :
    /\ \A k \in 2..L : ThresholdCleared(bal, k) /\ ~UnpurchasedMilestone(purchased, k)
    /\ \/ L = 20
       \/ ~ThresholdCleared(bal, L + 1)
       \/ UnpurchasedMilestone(purchased, L + 1)

\* floor(baseCost * (23/20)^n) in exact arithmetic
ExactFloorCost(baseCost, n) ==
  LET f == CostFraction(baseCost, n) IN f[1] \div f[2]

\* a step that rejects a call: it reports a failure, returns no true, and
\* leaves the store and the saved document as they were
CallRejected ==
  /\ ret'.status # "ok"
  /\ ret'.value # "true"
  /\ UNCHANGED <<storeVars, storage>>

\* C1: in every reachable state balance >= 0.
C1_BalanceNonNegative == NumNonNeg(balance)

\* a purchase that spent the whole balance
C1_Witness ==
  ret.op = "purchaseMilestone" /\ ret.status = "ok" /\ balance = NumZero

\* C2: a costed action (purchaseClickUpgrade, purchaseWorkSpeedUpgrade,
\* hireWorker, purchaseMilestone) called with balance < cost reports a
\* failure and leaves every field of the store unchanged.
C2_AtomicRejection ==
  [][ /\ (purchaseClickUpgrade /\ NumLt(balance, Rub(upgrades.clickPower.cost)))
           => CallRejected
      /\ (purchaseWorkSpeedUpgrade /\ NumLt(balance, Rub(upgrades.workSpeed.cost)))
           => CallRejected
      /\ \A w \in WorkerTypes :
           (hireWorker(w) /\ NumLt(balance, Rub(workers[w].cost))) => CallRejected
      /\ \A l \in MilestoneSet :
           (purchaseMilestone(l) /\ NumLt(balance, MILESTONE_UPGRADES[l].cost))
             => CallRejected ]_vars

\* purchaseClickUpgrade was rejected for insufficient funds
C2_Witness ==
  ret.op = "purchaseClickUpgrade" /\ ret.status = "insufficient_funds"

\* the caps of the worker types
WorkerCap ==
  [apprentice |-> 3, mechanic |-> 5, master |-> 3, brigadier |-> 2, director |-> 1]

WorkerGate == [mechanic |-> 5, master |-> 10, brigadier |-> 15, director |-> 20]

\* C4: purchaseWorkSpeedUpgrade fails while 5 is not purchased, and
\* hireWorker(type) of a gated type fails while its milestone is not
\* purchased, whatever the balance; balance, level/count and cost stay.
C4_MilestoneGate ==
  [][ /\ (purchaseWorkSpeedUpgrade /\ ~Includes(milestonesPurchased, 5))
           => /\ ret'.status # "ok"
              /\ UNCHANGED <<balance, upgrades>>
      /\ \A w \in DOMAIN WorkerGate :
           (hireWorker(w) /\ ~Includes(milestonesPurchased, WorkerGate[w]))
             => /\ ret'.status # "ok"
                /\ UNCHANGED <<balance, workers>> ]_vars

\* a hire rejected by the gate with a balance of at least 10^15 roubles
C4_Witness ==
  /\ ret.op = "hireWorker"
  /\ ret.status = "locked"
  /\ NumGe(balance, RubE(1, 15))

\* C5: checkAutoLevel(balance, currentLevel, milestonesPurchased) returns the
\* level reached by stepping up from currentLevel while the next threshold
\* is cleared and the next level is no unpurchased milestone; the result is
\* in [currentLevel, 20]; balance 1,000,000, no milestone and
\* currentLevel <= 4 give 4.
C5_CheckAutoLevel ==
  calResult # 0 =>
    LET b == calArgs.balance
        c == calArgs.currentLevel
        P == calArgs.milestonesPurchased
        r == calResult
    IN  /\ c <= r
        /\ r <= 20
        /\ \A L \in (c + 1)..r : ThresholdCleared(b, L) /\ ~UnpurchasedMilestone(P, L)
        /\ \/ r = 20
           \/ ~ThresholdCleared(b, r + 1)
           \/ UnpurchasedMilestone(P, r + 1)
        /\ (b = Rub(1000000) /\ P = <<>> /\ c <= 4) => r = 4

\* the call checkAutoLevel(1,000,000, 1, []) returned 4
C5_Witness ==
  /\ calResult = 4
  /\ calArgs.balance = Rub(1000000)
  /\ calArgs.currentLevel = 1
  /\ calArgs.milestonesPurchased = <<>>

\* C6: across every action other than resetGame, garageLevel does not
\* decrease.
C6_LevelMonotone ==
  [][ ~resetGame => garageLevel' >= garageLevel ]_vars

\* C7: for every milestone level m, garageLevel >= m implies that m is in
\* milestonesPurchased.
C7_GateInvariant ==
  \A m \in {5, 10, 15, 20} :
    garageLevel >= m => (\E i \in DOMAIN milestonesPurchased : milestonesPurchased[i] = m)

\* C8 as stated: garageLevel is the level the gate-aware walk from level 1
\* reaches for balance and milestonesPurchased, and balance >=
\* threshold(garageLevel), in every reachable state.
C8_LevelDerived ==
  /\ garageLevel = GateAwareWalk(balance, milestonesPurchased)
  /\ ThresholdCleared(balance, garageLevel)

\* C8 amended: garageLevel is never below the level the gate-aware walk
\* from level 1 reaches for balance and milestonesPurchased.
C8_LevelAtLeastWalk ==
  garageLevel >= GateAwareWalk(balance, milestonesPurchased)

\* a hire debited balance below the threshold of the level it keeps
C8_Witness ==
  /\ ret.op = "hireWorker"
  /\ ret.status = "ok"
  /\ garageLevel > GateAwareWalk(balance, milestonesPurchased)
  /\ ~ThresholdCleared(balance, garageLevel)

\* C9: across every action other than resetGame, loadProgress included,
\* totalClicks, totalEarned and sessionCount do not decrease.
C9_CountersMonotone ==
  [][ ~resetGame => /\ NumGe(totalClicks', totalClicks)
                    /\ NumGe(totalEarned', totalEarned)
                    /\ sessionCount' >= sessionCount ]_vars

\* C10: every stored cost equals floor(B * 1.15^n), n the item's level or
\* count.
C10_CostGrowthLaw ==
  /\ upgrades.clickPower.cost = ExactFloorCost(100, upgrades.clickPower.level)
  /\ upgrades.workSpeed.cost = ExactFloorCost(500, upgrades.workSpeed.level)
  /\ \A w \in WorkerTypes :
       workers[w].cost = ExactFloorCost(BASE_COSTS[w], workers[w].count)

\* C11: milestonesPurchased is always a duplicate-free subset of
\* {5, 10, 15, 20}, and a level in it stays in it through every action
\* other than resetGame.
C11_MilestonesKept ==
  /\ [](/\ \A i \in DOMAIN milestonesPurchased : milestonesPurchased[i] \in {5, 10, 15, 20}
        /\ \A i, j \in DOMAIN milestonesPurchased :
             milestonesPurchased[i] = milestonesPurchased[j] => i = j)
  /\ [][ ~resetGame =>
           \A m \in {5, 10, 15, 20} :
             (\E i \in DOMAIN milestonesPurchased : milestonesPurchased[i] = m)
               => (\E i \in DOMAIN milestonesPurchased' : milestonesPurchased'[i] = m) ]_vars

\* the store is in the state of a fresh game
FreshGame ==
  /\ balance = <<0, 0>>
  /\ totalClicks = <<0, 0>>
  /\ totalEarned = <<0, 0>>
  /\ clickValue = 1
  /\ garageLevel = 1
  /\ milestonesPurchased = <<>>
  /\ \A w \in WorkerTypes : workers[w].count = 0
  /\ upgrades.clickPower.level = 0
  /\ upgrades.workSpeed.level = 0

\* C12: handleClick always succeeds and adds clickValue * (2 if critical
\* else 1) to balance and to totalEarned and 1 to totalClicks, leaving
\* upgrades, workers, milestonesPurchased and passiveIncomePerSecond
\* unchanged; on a fresh game a non-critical click gives balance 1 and
\* totalClicks 1.
C12_HandleClick ==
  /\ [](steps < MaxSteps => \A c \in BOOLEAN : ENABLED handleClick(c))
  /\ [][ \A c \in BOOLEAN :
           handleClick(c) =>
             LET income == clickValue * (IF c THEN 2 ELSE 1)
             IN  /\ ret'.status \in {"normal", "critical"}
                 /\ balance' = NumAdd(balance, <<0, 10 * income>>)
                 /\ totalEarned' = NumAdd(totalEarned, <<0, 10 * income>>)
                 /\ totalClicks' = NumAdd(totalClicks, <<0, 1>>)
                 /\ UNCHANGED <<upgrades, workers, milestonesPurchased,
                                passiveIncomePerSecond>>
                 /\ (FreshGame /\ ~c) => (balance' = <<0, 10>> /\ totalClicks' = <<0, 1>>) ]_vars

\* the first click of a fresh game, not critical
C12_Witness ==
  /\ ret.op = "handleClick"
  /\ ret.status = "normal"
  /\ balance = <<0, 10>>
  /\ totalEarned = <<0, 10>>
  /\ totalClicks = <<0, 1>>

\* C13: a successful hireWorker(type) debits the pre-call workers[type].cost
\* from balance, adds 1 to workers[type].count, sets the next cost to
\* floor(base * 1.15^newCount) and leaves the other worker types unchanged;
\* balance 600 and apprentice cost 500 give balance 100, count 1, cost 575.
C13_HireEffect ==
  [][ \A w \in WorkerTypes :
        (hireWorker(w) /\ ret'.status = "ok") =>
          /\ balance' = NumSub(balance, <<0, 10 * workers[w].cost>>)
          /\ workers'[w].count = workers[w].count + 1
          /\ workers'[w].cost = ExactFloorCost(BASE_COSTS[w], workers[w].count + 1)
          /\ \A o \in WorkerTypes \ {w} : workers'[o] = workers[o]
          /\ (w = "apprentice" /\ balance = <<0, 6000>> /\ workers[w].cost = 500)
               => /\ balance' = <<0, 1000>>
                  /\ workers'[w].count = 1
                  /\ workers'[w].cost = 575 ]_vars

\* the one outcome hireWorker(w) is to report in the current state: the
\* first failing precondition in the order capacity, gate, funds
ExpectedHireOutcome(w) ==
  IF workers[w].count >= WorkerCap[w] THEN "at_capacity"
  ELSE IF w \in DOMAIN WorkerGate
          /\ ~(\E i \in DOMAIN milestonesPurchased : milestonesPurchased[i] = WorkerGate[w])
         THEN "locked"
  ELSE IF ~NumGe(balance, <<0, 10 * workers[w].cost>>) THEN "insufficient_funds"
  ELSE "ok"

WalkFrom(bal, start, purchased) ==
  CHOOSE L \in start..20 :
    /\ \A k \in (start + 1)..L :
         ThresholdCleared(bal, k) /\ ~UnpurchasedMilestone(purchased, k)
    /\ \/ L = 20
       \/ ~ThresholdCleared(bal, L + 1)
       \/ UnpurchasedMilestone(purchased, L + 1)

\* C15: a successful purchaseMilestone(level) debits the milestone's cost,
\* adds level to milestonesPurchased, sets garageLevel to the walk from
\* max(previous garageLevel, level) with the new balance and milestones, so
\* garageLevel >= level, and clears the pending offer and the dismissal flag.
C15_PurchaseMilestoneEffect ==
  [][ \A l \in MilestoneSet :
        (purchaseMilestone(l) /\ ret'.status = "ok") =>
          LET seed == IF garageLevel > l THEN garageLevel ELSE l
          IN  /\ balance' = NumSub(balance, MILESTONE_UPGRADES[l].cost)
              /\ \E i \in DOMAIN milestonesPurchased' : milestonesPurchased'[i] = l
              /\ \A i \in DOMAIN milestonesPurchased :
                   milestonesPurchased'[i] = milestonesPurchased[i]
              /\ Len(milestonesPurchased') = Len(milestonesPurchased) + 1
              /\ garageLevel' = WalkFrom(balance', seed, milestonesPurchased')
              /\ garageLevel' >= l
              /\ showMilestoneModal' = FALSE
              /\ pendingMilestoneLevel' = 0
              /\ milestoneModalDismissed' = FALSE ]_vars

\* milestone 5 bought with 10^9 roubles: the level jumped to 5 and walked on
\* to 9
C15_Witness ==
  /\ ret.op = "purchaseMilestone"
  /\ ret.status = "ok"
  /\ milestonesPurchased = <<5>>
  /\ garageLevel = 9

\* the milestone levels not in purchased
UnpurchasedLevels(purchased) ==
  { m \in {5, 10, 15, 20} : UnpurchasedMilestone(purchased, m) }

\* the lowest unpurchased milestone level is on offer: no offer is shown or
\* dismissed, and the balance clears that level's threshold
OfferDue(bal, purchased, show, dismissed) ==
  /\ ~show
  /\ ~dismissed
  /\ UnpurchasedLevels(purchased) # {}
  /\ ThresholdCleared(bal,
       CHOOSE m \in UnpurchasedLevels(purchased) :
         \A o \in UnpurchasedLevels(purchased) : m <= o)

\* the milestone check ran on the new balance
MilestoneCheckRan ==
  IF OfferDue(balance', milestonesPurchased', showMilestoneModal, milestoneModalDismissed)
    THEN /\ showMilestoneModal'
         /\ pendingMilestoneLevel' =
              CHOOSE m \in UnpurchasedLevels(milestonesPurchased') :
                \A o \in UnpurchasedLevels(milestonesPurchased') : m <= o
    ELSE UNCHANGED <<showMilestoneModal, pendingMilestoneLevel>>

\* C16: the passive-income tick changes no field when
\* passiveIncomePerSecond <= 0; otherwise it adds passiveIncomePerSecond to
\* balance and to totalEarned, leaves totalClicks, upgrades, workers and
\* milestonesPurchased unchanged, and re-runs the auto-level walk and the
\* milestone check.
C16_Tick ==
  [][ tickPassiveIncome =>
        IF passiveIncomePerSecond <= 0
          THEN UNCHANGED <<storeVars, storage>>
          ELSE /\ balance' = NumAdd(balance, <<0, passiveIncomePerSecond>>)
               /\ totalEarned' = NumAdd(totalEarned, <<0, passiveIncomePerSecond>>)
               /\ UNCHANGED <<totalClicks, upgrades, workers, milestonesPurchased>>
               /\ garageLevel' = WalkFrom(balance', garageLevel, milestonesPurchased)
               /\ MilestoneCheckRan ]_vars

\* a tick paid the income of one apprentice
C16_Witness ==
  /\ ret.op = "tick"
  /\ ret.status = "paid"
  /\ passiveIncomePerSecond = 20
  /\ workers["apprentice"].count = 1

\* the sum over the worker types of count(type) * incomeRate(type), in roubles
\* per second
BaseIncomeOfWorkers ==
    workers["apprentice"].count * 2
  + workers["mechanic"].count * 20
  + workers["master"].count * 200
  + workers["brigadier"].count * 2000
  + workers["director"].count * 20000

\* C17: in every reachable state passiveIncomePerSecond is the sum over the
\* worker types of count * incomeRate, times 1 + 0.10 * workSpeed.level (here
\* in tenths of a rouble: times 10 + level), and it is not negative.
C17_PassiveIncomeDerived ==
  /\ passiveIncomePerSecond = BaseIncomeOfWorkers * (10 + upgrades.workSpeed.level)
  /\ passiveIncomePerSecond >= 0

\* one apprentice at work-speed level 1: 2 * 1.1 = 2.2 roubles per second
C17_Witness ==
  /\ workers["apprentice"].count = 1
  /\ upgrades.workSpeed.level = 1
  /\ passiveIncomePerSecond = 22

\* C18: immediately after resetGame, load() returns null and balance = 0,
\* clickValue = 1, garageLevel = 1, all counters, upgrade levels and worker
\* counts are 0, milestonesPurchased is empty and no milestone offer is
\* pending or dismissed.
C18_ResetGame ==
  [][ resetGame =>
        /\ Len(loadGame') = 0
        /\ balance' = <<0, 0>>
        /\ clickValue' = 1
        /\ garageLevel' = 1
        /\ totalClicks' = <<0, 0>>
        /\ totalEarned' = <<0, 0>>
        /\ sessionCount' = 0
        /\ upgrades'.clickPower.level = 0
        /\ upgrades'.workSpeed.level = 0
        /\ \A w \in WorkerTypes : workers'[w].count = 0
        /\ milestonesPurchased' = <<>>
        /\ ~showMilestoneModal'
        /\ pendingMilestoneLevel' = 0
        /\ ~milestoneModalDismissed' ]_vars

\* a reset made after a document was saved and time had passed
C18_Witness ==
  /\ ret.op = "resetGame"
  /\ now > 1
  /\ Len(storage) = 0
  /\ balance = <<0, 0>>

\* the fields of a document: <<section, field>> in playerData and stats,
\* <<section, item, field>> in upgrades and workers
FieldPaths(doc) ==
  UNION { { <<s, f>> : f \in DOMAIN doc[s] } :
            s \in {"playerData", "stats"} \cap DOMAIN doc }
  \cup
  UNION { UNION { { <<s, i, f>> : f \in DOMAIN doc[s][i] } : i \in DOMAIN doc[s] } :
            s \in {"upgrades", "workers"} \cap DOMAIN doc }

\* the value of a field of a document
FieldValue(doc, p) ==
  IF Len(p) = 2 THEN doc[p[1]][p[2]] ELSE doc[p[1]][p[2]][p[3]]

\* the stored content is a document load() accepts
Loadable(raw) ==
  /\ Len(raw) = 1
  /\ {"version", "timestamp", "playerData", "upgrades", "workers", "stats"}
       \subseteq DOMAIN raw[1]
  /\ {"balance", "totalClicks", "garageLevel"} \subseteq DOMAIN raw[1].playerData
  /\ {"clickPower", "workSpeed"} \subseteq DOMAIN raw[1].upgrades
  /\ {"apprentice", "mechanic"} \subseteq DOMAIN raw[1].workers

\* C19: save(doc) followed by load() returns a document in which every field
\* given by doc has doc's value (so a document that gives every field comes
\* back in playerData, upgrades, workers and stats), version and timestamp
\* are stamped by save, and a field doc omits has the value of the
\* previously persisted document, or the default where there is none.
C19_RoundTrip ==
  calResult.stage = "loaded" =>
    /\ Len(calResult.loaded) = 1
    /\ LET doc       == calArgs.doc
           loaded    == calResult.loaded[1]
           prior     == calResult.prior
           priorFlds == IF Loadable(prior) THEN FieldPaths(prior[1]) ELSE {}
       IN  /\ loaded.version = 1
           /\ loaded.timestamp = now
           /\ FieldPaths(loaded) =
                FieldPaths(doc) \cup priorFlds \cup FieldPaths(DEFAULT_SAVE_DATA)
           /\ \A p \in FieldPaths(loaded) :
                FieldValue(loaded, p) =
                  IF p \in FieldPaths(doc) THEN FieldValue(doc, p)
                  ELSE IF p \in priorFlds THEN FieldValue(prior[1], p)
                  ELSE FieldValue(DEFAULT_SAVE_DATA, p)
           /\ (FieldPaths(DEFAULT_SAVE_DATA) \subseteq FieldPaths(doc)
                 /\ priorFlds \subseteq FieldPaths(doc))
                => \A s \in {"playerData", "upgrades", "workers", "stats"} :
                     loaded[s] = doc[s]

\* a document giving every field was saved over an earlier one and came back
C19_Witness ==
  /\ calResult.stage = "loaded"
  /\ calArgs.doc = FullDocA
  /\ Len(calResult.prior) = 1
  /\ calResult.prior[1].workers = FullDocB.workers
  /\ calResult.loaded[1].playerData = FullDocA.playerData
  /\ calResult.loaded[1].workers = FullDocA.workers

\* seconds * rate as an amount (seconds <= 10^5, rate in tenths <= 10^6)
SecondsTimesRate(seconds, rate) ==
  LET high == seconds * (rate \div 10000)
      low  == seconds * (rate % 10000)
      sum  == (high % 100000) * 10000 + low
  IN  <<(high \div 100000) + (sum \div 1000000000), sum % 1000000000>>

\* C20: for rate r > 0 and t seconds since the last save,
\* calculateOfflineEarnings returns clamp(t, 0, maxHours * 3600) * r; it
\* returns 0 when r <= 0, when there is no prior timestamp, or when t < 60;
\* r = 10, t = 90 and maxHours = 24 give 900.
C20_OfflineEarnings ==
  calResult.stage = "returned" =>
    LET r       == calArgs.passiveIncomePerSec
        t       == calArgs.elapsed
        cap     == calArgs.maxOfflineHours * 3600
        clamped == IF t < 0 THEN 0 ELSE IF t > cap THEN cap ELSE t
    IN  /\ calResult.value =
             IF r <= 0 \/ calArgs.lastTimestamp = 0 \/ t < 60 THEN <<0, 0>>
             ELSE SecondsTimesRate(clamped, r)
        /\ (r = 100 /\ t = 90 /\ calArgs.maxOfflineHours = 24
              /\ calArgs.lastTimestamp # 0)
             => calResult.value = <<0, 9000>>

\* the call with 10 roubles per second, 90 seconds and 24 hours returned 900
C20_Witness ==
  /\ calResult.stage = "returned"
  /\ calArgs.passiveIncomePerSec = 100
  /\ calArgs.elapsed = 90
  /\ calArgs.maxOfflineHours = 24
  /\ calArgs.lastTimestamp = 1000
  /\ calResult.value = <<0, 9000>>

\* the document saveProgress would save in the current state
CurrentDocument ==
  SaveDocument(balance, totalClicks, garageLevel, milestonesPurchased,
               upgrades, workers, totalEarned, sessionCount)

\* every action of the engine can be taken
EngineActionsEnabled ==
  /\ \A c \in BOOLEAN : ENABLED handleClick(c)
  /\ ENABLED purchaseClickUpgrade
  /\ ENABLED purchaseWorkSpeedUpgrade
  /\ \A w \in WorkerTypes : ENABLED hireWorker(w)
  /\ \A l \in {5, 10, 15, 20} : ENABLED purchaseMilestone(l)
  /\ ENABLED tickPassiveIncome
  /\ ENABLED saveProgress
  /\ ENABLED loadProgress
  /\ ENABLED closeMilestoneModal
  /\ ENABLED resetGame

\* C21: a storage write failure never propagates: saveGame returns false
\* for a write that fails, a saveProgress whose write failed leaves every
\* field of the store (and the stored document) unchanged, and every
\* engine action can be taken afterwards.
C21_WriteFailureContained ==
  /\ [](LET outcome == saveGameOutcome(CurrentDocument, now, FALSE)
        IN  ~outcome.success /\ outcome.storage = storage)
  /\ [][ (ret'.op = "saveProgress" /\ ret'.status = "write_failed")
           => UNCHANGED <<storeVars, storage>> ]_vars
  /\ []((ret.op = "saveProgress" /\ ret.status = "write_failed" /\ steps < MaxSteps)
          => EngineActionsEnabled)

\* a saveProgress whose write failed: the stored document is still the one
\* of an earlier save, behind the store
C21_Witness ==
  /\ ret.op = "saveProgress"
  /\ ret.status = "write_failed"
  /\ Len(storage) = 1
  /\ storage[1].playerData.balance # balance

\* a field isValidSaveData tests is missing from the parsed document or has
\* a value of the wrong type: no number where a number belongs, no object
\* (an array, for one) where an object belongs
RequiredFieldBad(doc) ==
  \/ \E k \in {"version", "timestamp", "playerData", "upgrades", "workers", "stats"} :
       k \notin DOMAIN doc
  \/ \E k \in {"playerData", "upgrades", "workers", "stats"} : doc[k] = <<>>
  \/ \E f \in {"balance", "totalClicks", "garageLevel"} : f \notin DOMAIN doc.playerData
  \/ \E f \in {"clickPower", "workSpeed"} :
       f \notin DOMAIN doc.upgrades \/ doc.upgrades[f] = <<>>
  \/ \E f \in {"apprentice", "mechanic"} :
       f \notin DOMAIN doc.workers \/ doc.workers[f] = <<>>

\* C22: load() returns null when no blob exists, when the blob does not
\* parse, or when a required field is missing or wrongly typed (loadProgress
\* then starts a fresh game).
C22_LoadRejectsCorrupt ==
  calResult.stage = "loaded" =>
    ( ( \/ Len(storage) = 0
        \/ "text" \in DOMAIN storage[1]
        \/ RequiredFieldBad(storage[1]) )
      => calResult.loaded = <<>> )

\* C23: hireWorker with a worker type outside the five defined types, and
\* purchaseMilestone with a level outside {5, 10, 15, 20} or a level already
\* in milestonesPurchased, leave every state field unchanged and do not
\* report success.
C23_CallerBugRejected ==
  [][ /\ \A workerType \in UndeclaredWorkerTypes :
           hireWorker(workerType) => CallRejected
      /\ \A level \in UndeclaredLevels :
           purchaseMilestone(level) => CallRejected
      /\ \A level \in {5, 10, 15, 20} :
           (purchaseMilestone(level)
              /\ \E i \in DOMAIN milestonesPurchased : milestonesPurchased[i] = level)
             => CallRejected ]_vars

\* the lookup table of the click income, levels 0..50 (entry level + 1)
CLICK_INCOME_TABLE ==
  << 1, 2, 3, 4, 5, 7, 9, 12, 16, 21,
     27, 34, 44, 55, 70, 89, 113, 143, 182, 231,
     293, 372, 472, 599, 760, 965, 1225, 1554, 1972, 2503,
     3176, 4014, 5074, 6413, 8106, 10245, 12950, 16368, 20688, 26149,
     33051, 41775, 52803, 66741, 84359, 106627, 134773, 170349, 215316, 272153,
     343993 >>

\* C24: clickValue equals the click-income function of
\* upgrades.clickPower.level, which is the lookup-table entry for levels
\* 0..50 (the levels reached here); a successful purchaseClickUpgrade needs
\* no milestone, raises the level by exactly 1 and sets clickValue to the
\* value for the new level.
C24_ClickValueFromTable ==
  /\ [](upgrades.clickPower.level <= 50
          => clickValue = CLICK_INCOME_TABLE[upgrades.clickPower.level + 1])
  /\ [][ purchaseClickUpgrade =>
           /\ (NumGe(balance, <<0, 10 * upgrades.clickPower.cost>>)
                 => ret'.status = "ok")
           /\ ret'.status = "ok" =>
                /\ upgrades'.clickPower.level = upgrades.clickPower.level + 1
                /\ clickValue' = CLICK_INCOME_TABLE[upgrades'.clickPower.level + 1] ]_vars

\* the lowest milestone level not in purchased (when there is one)
LowestUnpurchased(purchased) ==
  CHOOSE m \in UnpurchasedLevels(purchased) :
    \A o \in UnpurchasedLevels(purchased) : m <= o

\* a call that changed balance or milestonesPurchased has completed
BalanceChangingCallDone ==
  \/ ret'.op \in {"handleClick", "addOfflineEarnings"}
  \/ ret'.op = "tick" /\ ret'.status = "paid"
  \/ /\ ret'.op \in {"purchaseClickUpgrade", "purchaseWorkSpeedUpgrade",
                     "hireWorker", "purchaseMilestone"}
     /\ ret'.status = "ok"

\* C25: after handleClick, a tick, an offline credit, a purchase, a hire or
\* purchaseMilestone has completed, if no offer has been dismissed and the
\* lowest unpurchased milestone m has threshold(m) <= balance, then m is the
\* pending offer.
C25_MilestoneRechecked ==
  [][ (steps' = steps + 1 /\ BalanceChangingCallDone) =>
        ( ( /\ ~milestoneModalDismissed'
            /\ UnpurchasedLevels(milestonesPurchased') # {}
            /\ ThresholdCleared(balance', LowestUnpurchased(milestonesPurchased')) )
          => ( /\ showMilestoneModal'
               /\ pendingMilestoneLevel' = LowestUnpurchased(milestonesPurchased') ) ) ]_vars

\* C26: whenever checkForMilestone arms an offer, the pending level is the
\* first tier in the order 5, 10, 15, 20 that is not in milestonesPurchased
\* and whose threshold the balance has reached: it is no purchased tier, and
\* no lower tier is unpurchased.
C26_OfferIsFirstUnpurchased ==
  [][ (~showMilestoneModal /\ showMilestoneModal') =>
        /\ pendingMilestoneLevel' \in {5, 10, 15, 20}
        /\ ~(\E i \in DOMAIN milestonesPurchased' :
               milestonesPurchased'[i] = pendingMilestoneLevel')
        /\ ThresholdCleared(balance', pendingMilestoneLevel')
        /\ \A lower \in {5, 10, 15, 20} :
             lower < pendingMilestoneLevel' =>
               \E i \in DOMAIN milestonesPurchased' : milestonesPurchased'[i] = lower ]_vars

\* with level 5 purchased, a click armed the offer for level 10
C26_Witness ==
  /\ ret.op = "handleClick"
  /\ milestonesPurchased = <<5>>
  /\ showMilestoneModal
  /\ pendingMilestoneLevel = 10

\* C27: after closeMilestoneModal no handleClick, tick, offline credit,
\* purchase or hire makes an offer pending again: while the dismissal stands
\* no offer is pending, and only a successful purchaseMilestone or resetGame
\* clears the dismissal (both do).
C27_DismissalSuppresses ==
  /\ [](milestoneModalDismissed
          => (~showMilestoneModal /\ pendingMilestoneLevel = 0))
  /\ [][ ret'.op = "closeMilestoneModal" /\ steps' = steps + 1
           => milestoneModalDismissed' ]_vars
  /\ [][ (milestoneModalDismissed /\ ~milestoneModalDismissed')
           => \/ ret'.op = "purchaseMilestone" /\ ret'.status = "ok"
              \/ ret'.op = "resetGame" ]_vars
  /\ [][ ( /\ steps' = steps + 1
           /\ \/ ret'.op = "purchaseMilestone" /\ ret'.status = "ok"
              \/ ret'.op = "resetGame" )
           => ~milestoneModalDismissed' ]_vars

\* after a dismissal, a click with the threshold of the lowest unpurchased
\* milestone reached armed no offer
C27_Witness ==
  /\ ret.op = "handleClick"
  /\ milestoneModalDismissed
  /\ ~showMilestoneModal
  /\ UnpurchasedLevels(milestonesPurchased) # {}
  /\ ThresholdCleared(balance, LowestUnpurchased(milestonesPurchased))

\* the longest offline interval loadProgress pays for, in seconds
OfflineCapSeconds == 24 * SECONDS_PER_HOUR

\* C28: a loadProgress that restores a saved document credits the offline
\* earnings E once: balance is the saved balance plus E, totalEarned the saved
\* totalEarned plus E, lastOfflineEarnings is E, and E is at most 24 hours of
\* the restored passiveIncomePerSecond.
C28_OfflineCreditedOnce ==
  [][ (ret'.op = "loadProgress" /\ ret'.status = "restored" /\ steps' = steps + 1)
        => LET saved == loadGame[1]
               E     == lastOfflineEarnings'
           IN  /\ balance' = NumAdd(saved.playerData.balance, E)
               /\ totalEarned' = NumAdd(saved.stats.totalEarned, E)
               /\ NumNonNeg(E)
               /\ NumGe(NumMul(OfflineCapSeconds,
                          IF passiveIncomePerSecond' > 0
                            THEN passiveIncomePerSecond' ELSE 0), E) ]_vars

\* a saved game was restored and paid offline earnings
C28_Witness ==
  /\ ret.op = "loadProgress"
  /\ ret.status = "restored"
  /\ lastOfflineEarnings # NumZero
  /\ Len(storage) = 1
  /\ balance = NumAdd(storage[1].playerData.balance, lastOfflineEarnings)

\* C29: at most one debounced save is pending; every change of balance or
\* garageLevel cancels the pending debounced save and arms a new one with the
\* full delay; the debounced saveProgress runs only when the delay has passed
\* with no change of balance or garageLevel.
C29_DebouncedSave ==
  /\ [](Cardinality(calResult.timeouts) <= 1)
  /\ [][ ( /\ calResult.phase = "mounted"
           /\ balance' # balance \/ garageLevel' # garageLevel )
           => /\ calResult'.timeouts =
                   { [id |-> calResult'.saveTimerRef, remaining |-> SaveDebounceSeconds] }
              /\ calResult'.quiet = 0 ]_vars
  /\ [][ hostDebounceFires
           => /\ calResult.quiet >= SaveDebounceSeconds
              /\ calResult'.timeouts = {} ]_vars

\* after a click the delay passed with no change and the debounced save
\* wrote the document of the store
C29_Witness ==
  /\ calResult.event = "debounce"
  /\ ret.op = "saveProgress"
  /\ ret.status = "ok"
  /\ totalClicks # Cnt(0)
  /\ storage[1].playerData.balance = balance
  /\ storage[1].playerData.totalClicks = totalClicks

\* C30: when the host stays mounted and loaded and the player stops
\* clicking, every handleClick is eventually followed by a saveProgress of
\* the debounce timer.
C30_BurstIsSaved ==
  (<>[](calResult.event # "click"))
    => ((calResult.event = "click") ~> (calResult.event = "debounce"))

\* the worker entry of the store that count and cost of a saved entry give
RestoredEntry(entry) == [count |-> entry.count, cost |-> entry.cost]

\* a worker with none hired
NoneHired(type) == [count |-> 0, cost |-> BASE_COSTS[type]]

\* C32: loadProgress migrates a legacy document: a saved foreman is restored
\* as brigadier when the document has no brigadier, a worker type absent
\* from the document is restored with count 0 and its base cost, a document
\* without milestonesPurchased is restored with the empty array, and saved
\* mechanics are reset to count 0 and base cost when 5 is not in the
\* restored array.
C32_LegacyMigrated ==
  [][ (ret'.op = "loadProgress" /\ steps' = steps + 1 /\ Len(storage) = 1)
        => LET document == storage[1]
               saved    == document.workers
               has(key) == key \in DOMAIN saved
           IN  /\ ret'.status = "restored"
               /\ balance' = NumAdd(document.playerData.balance, lastOfflineEarnings')
               /\ milestonesPurchased' =
                    IF "milestonesPurchased" \in DOMAIN document.playerData
                      THEN document.playerData.milestonesPurchased ELSE <<>>
               /\ workers'.brigadier =
                    IF has("brigadier") THEN RestoredEntry(saved.brigadier)
                    ELSE IF has("foreman") THEN RestoredEntry(saved.foreman)
                    ELSE NoneHired("brigadier")
               /\ \A type \in {"master", "director"} :
                    workers'[type] = IF has(type) THEN RestoredEntry(saved[type])
                                     ELSE NoneHired(type)
               /\ workers'.apprentice = RestoredEntry(saved.apprentice)
               /\ workers'.mechanic =
                    IF saved.mechanic.count > 0 /\ ~Includes(milestonesPurchased', 5)
                      THEN NoneHired("mechanic")
                      ELSE RestoredEntry(saved.mechanic)
               /\ DOMAIN workers' = WorkerTypes ]_vars

\* a document with a foreman, no brigadier, no master, mechanics hired and
\* no milestonesPurchased was loaded
C32_Witness ==
  /\ ret.op = "loadProgress"
  /\ ret.status = "restored"
  /\ Len(storage) = 1
  /\ DOMAIN storage[1].workers = {"apprentice", "mechanic", "foreman"}
  /\ storage[1].workers.mechanic.count = 2
  /\ "milestonesPurchased" \notin DOMAIN storage[1].playerData
  /\ workers.brigadier = [count |-> 1, cost |-> 575000]
  /\ workers.mechanic = [count |-> 0, cost |-> 5000]
  /\ workers.master = [count |-> 0, cost |-> 50000]
  /\ milestonesPurchased = <<>>

\* the tier the balance-driven check offers in the present state when no
\* offer is shown or dismissed (0 = none)
BalanceRuleTier == checkForMilestone(balance, milestonesPurchased, FALSE, 0, FALSE)[2]

\* the tier the garageLevel-driven check of the earlier engine offers
LevelRuleTier == levelDrivenMilestone(1, garageLevel, milestonesPurchased)

\* C33: the balance-driven and the garageLevel-driven pending rules are not
\* equivalent.  Where the balance has reached the threshold of the lowest
\* unpurchased milestone m and garageLevel stands below m, the balance rule
\* offers m and the level rule offers nothing; where garageLevel has reached
\* m and the balance is below its threshold (m was skipped by a purchase out
\* of order, the balance spent), the level rule offers m and the balance
\* rule nothing.
C33_RulesDiffer ==
  UnpurchasedLevels(milestonesPurchased) # {} =>
    LET m == LowestUnpurchased(milestonesPurchased)
    IN  /\ (ThresholdCleared(balance, m) /\ garageLevel < m)
             => (BalanceRuleTier = m /\ LevelRuleTier = 0)
        /\ (~ThresholdCleared(balance, m) /\ garageLevel >= m)
             => (BalanceRuleTier = 0 /\ LevelRuleTier = m)

\* milestone 10 was purchased before milestone 5 and the balance spent on
\* it: the level rule offers 5, the balance rule nothing
C33_Witness ==
  /\ ret.op = "purchaseMilestone"
  /\ ret.status = "ok"
  /\ milestonesPurchased = <<10>>
  /\ garageLevel >= 10
  /\ NumLt(balance, GARAGE_LEVEL_THRESHOLDS[5])
  /\ LevelRuleTier = 5
  /\ BalanceRuleTier = 0

\* C34: in every reachable state showMilestoneModal is true exactly when
\* pendingMilestoneLevel is not null, and a pendingMilestoneLevel that is
\* not null is a milestone level that is not in milestonesPurchased.
C34_PendingOfferConsistent ==
  /\ showMilestoneModal <=> pendingMilestoneLevel # 0
  /\ pendingMilestoneLevel # 0 =>
       /\ pendingMilestoneLevel \in MilestoneSet
       /\ ~Includes(milestonesPurchased, pendingMilestoneLevel)

\* the offer for level 10 is pending after level 5, purchased earlier, was
\* restored by loadProgress
C34_Witness ==
  /\ ret.op = "loadProgress"
  /\ ret.status = "restored"
  /\ showMilestoneModal
  /\ pendingMilestoneLevel = 10
  /\ milestonesPurchased = <<5>>

\* C35: in every state reachable from a fresh game by engine actions, a
\* gated worker type has count > 0 only if its required milestone is in
\* milestonesPurchased, and upgrades.workSpeed.level > 0 only if milestone 5
\* is in milestonesPurchased.
C35_GatedContentUnlocked ==
  /\ \A type \in WorkerTypes :
       (requiredMilestone[type] > 0 /\ workers[type].count > 0)
         => Includes(milestonesPurchased, requiredMilestone[type])
  /\ upgrades.workSpeed.level > 0 => Includes(milestonesPurchased, 5)

\* a mechanic hired after milestone 5 was restored by loadProgress
C35_Witness ==
  /\ ret.op = "loadProgress"
  /\ ret.status = "restored"
  /\ workers.mechanic.count > 0
  /\ Includes(milestonesPurchased, 5)

\* C36: in every state reachable from a fresh game by engine actions,
\* balance <= totalEarned.
C36_BalanceAtMostEarned == NumGe(totalEarned, balance)

\* after income (a click) and a spend (a hire) the balance is below
\* totalEarned
C36_Witness ==
  /\ ret.op = "hireWorker"
  /\ ret.status = "ok"
  /\ NumLt(balance, totalEarned)
  /\ totalClicks # Cnt(0)

\* no time has passed since the loadProgress that restored the document
NoTimeSinceLoad ==
  ret.status = "restored"
    => /\ Len(loadGame) = 1
       /\ lastOfflineTimeAway = now - loadGame[1].timestamp

\* C38: loadProgress called twice in a row, with no save in between and no
\* time passing, leaves the balance, totalEarned, sessionCount and offline
\* snapshot that the first call left: offline earnings are not credited
\* twice.
C38_LoadProgressIdempotent ==
  [][ ( /\ ret.op = "loadProgress"
        /\ NoTimeSinceLoad
        /\ ret'.op = "loadProgress"
        /\ steps' = steps + 1 )
        => /\ ret'.status = ret.status
           /\ balance' = balance
           /\ totalEarned' = totalEarned
           /\ sessionCount' = sessionCount
           /\ lastOfflineEarnings' = lastOfflineEarnings
           /\ lastOfflineTimeAway' = lastOfflineTimeAway ]_vars

\* the second of two calls in a row has restored a document that pays
\* offline earnings
C38_Witness ==
  /\ ret.op = "loadProgress"
  /\ ret.status = "restored"
  /\ steps = 3
  /\ now = 91
  /\ lastOfflineEarnings # NumZero
  /\ balance = NumAdd(storage[1].playerData.balance, lastOfflineEarnings)
  /\ totalClicks = storage[1].playerData.totalClicks

\* C37: saveProgress followed by loadProgress with less than 60 seconds
\* elapsed yields the same balance, totalClicks, totalEarned, garageLevel,
\* milestonesPurchased, clickValue, upgrade levels and costs, worker counts
\* and costs and passiveIncomePerSecond, with sessionCount increased by 1.
C37_SaveLoadRoundTrip ==
  [][ ( /\ ret.op = "saveProgress"
        /\ ret.status = "ok"
        /\ Len(storage) = 1
        /\ now - storage[1].timestamp < 60
        /\ ret'.op = "loadProgress" )
        => /\ balance' = balance
           /\ totalClicks' = totalClicks
           /\ totalEarned' = totalEarned
           /\ garageLevel' = garageLevel
           /\ milestonesPurchased' = milestonesPurchased
           /\ clickValue' = clickValue
           /\ upgrades' = upgrades
           /\ workers' = workers
           /\ passiveIncomePerSecond' = passiveIncomePerSecond
           /\ sessionCount' = sessionCount + 1 ]_vars

\* the live intervals of startPassiveIncome
PassiveTimers == { t \in calResult.intervals : t.kind = "passive" }

\* the disposer of startPassiveIncome has been called and the host has torn
\* down the autosave and debounce timers
TornDown == calResult.phase = "unmounted"

\* C31: once the disposer of startPassiveIncome has been called and the host
\* has torn down its save timers, no timer is live, no further step changes
\* balance or totalEarned and none writes storage; with every start paired
\* with its disposer at most one passive-income timer is live at a time.
C31_TimersCancelled ==
  /\ [](TornDown => calResult.intervals = {} /\ calResult.timeouts = {})
  /\ [](Cardinality(PassiveTimers) <= 1)
  /\ [][TornDown => /\ balance' = balance
                    /\ totalEarned' = totalEarned
                    /\ storage' = storage]_vars

\* the component has unmounted after its timers paid passive income and
\* saved
C31_Witness ==
  /\ TornDown
  /\ calResult.event = "unmount"
  /\ passiveIncomePerSecond > 0
  /\ Len(storage) = 1
  /\ storage[1].playerData.balance # HostSavedDocument.playerData.balance
  /\ balance # storage[1].playerData.balance

\* a timer of the autosave or of the debounced save is live
SaveTimerArmed ==
  \/ calResult.timeouts # {}
  \/ \E t \in calResult.intervals : t.kind = "autosave"

\* C39: the autosave interval and the debounced save are armed only while
\* isLoaded is true, in the store and in the render that armed them, so a
\* save of a timer runs only on a loaded store and never writes the default
\* state the store holds before the load.
C39_NoSaveBeforeLoad ==
  /\ [](SaveTimerArmed => isLoaded /\ calResult.closureLoaded)
  /\ [][calResult'.event \in {"debounce", "interval"}
          => /\ isLoaded
             /\ SaveTimerArmed
             /\ storage' # storage => storage'[1].stats.sessionCount >= 1]_vars

\* a timer has saved the loaded game
C39_Witness ==
  /\ ret.op = "saveProgress"
  /\ ret.status = "ok"
  /\ calResult.event \in {"debounce", "interval"}
  /\ isLoaded
  /\ storage[1].stats.sessionCount = sessionCount
  /\ sessionCount >= 1

====
